---------------------------- MODULE Spec2Model ----------------------------
(***************************************************************************)
(* Verification model of the EduScribe Apps Script workflow: discovery of  *)
(* new recordings (processNewRecordings), polling of transcription jobs    *)
(* (monitorTranscriptionJobs and its completion handling), and transcript  *)
(* import with consolidated homework assignment.                           *)
(*                                                                         *)
(* File names are sequences of one-character strings, so that the regular  *)
(* expressions and string clean-ups of the scripts are computed and not    *)
(* assumed.                                                                *)
(***************************************************************************)
EXTENDS Integers, Sequences, FiniteSets, TLC

(***************************************************************************)
(* Bounds of the model.                                                    *)
(***************************************************************************)
MaxFiles == 2

MaxRuns == 2

MaxFaults == 1

MaxTranscripts == 3

(***************************************************************************)
(* Characters and elementary string functions.                             *)
(***************************************************************************)
Digits == {"0", "1", "2", "3", "4", "5", "6", "7", "8", "9"}

UpperSeq == << "A", "B", "C", "D", "E", "F", "G", "H", "I", "J", "K", "L", "M",
               "N", "O", "P", "Q", "R", "S", "T", "U", "V", "W", "X", "Y", "Z" >>

LowerSeq == << "a", "b", "c", "d", "e", "f", "g", "h", "i", "j", "k", "l", "m",
               "n", "o", "p", "q", "r", "s", "t", "u", "v", "w", "x", "y", "z" >>

Upper == {UpperSeq[i] : i \in 1..26}

Lower == {LowerSeq[i] : i \in 1..26}

\* the character class [A-Za-z0-9_-] of the id fragment
FragChars == Upper \cup Lower \cup Digits \cup {"_", "-"}

\* the character class [ _-] between the name and the date of a Meet recording
SepChars == {" ", "_", "-"}

\* the character class of specialCharsRegex, removed from the name part: tilde,
\* caret, asterisk, apostrophe, grave accent (written "grave" here) and plus
SpecialChars == {"~", "^", "*", "'", "grave", "+"}

\* the character class \s
WhiteChars == {" "}

Min(S) == CHOOSE x \in S : \A y \in S : x <= y

\* String.prototype.toLowerCase, one character
LowerChar(c) ==
  IF c \in Upper THEN LowerSeq[CHOOSE i \in 1..26 : UpperSeq[i] = c] ELSE c

ToLower(s) == [i \in 1..Len(s) |-> LowerChar(s[i])]

\* String.prototype.trim
Trim(s) ==
  LET keep == {i \in 1..Len(s) : s[i] \notin WhiteChars}
  IN  IF keep = {} THEN << >>
      ELSE SubSeq(s, Min(keep), CHOOSE x \in keep : \A y \in keep : y <= x)

\* replace(/[...]/g, ""): delete every character of the class
RemoveChars(s, class) ==
  LET Keep(c) == c \notin class IN SelectSeq(s, Keep)

\* replace(/x/g, y) for a one-character pattern or class
MapChars(s, class, to) == [i \in 1..Len(s) |-> IF s[i] \in class THEN to ELSE s[i]]

\* replace(/\s+/g, to): every maximal run of white space becomes one `to`
RECURSIVE CollapseWhite(_, _)
CollapseWhite(s, to) ==
  IF s = << >> THEN << >>
  ELSE IF Head(s) \in WhiteChars
       THEN IF Len(s) > 1 /\ s[2] \in WhiteChars
            THEN CollapseWhite(Tail(s), to)
            ELSE << to >> \o CollapseWhite(Tail(s), to)
       ELSE << Head(s) >> \o CollapseWhite(Tail(s), to)

\* replace(/[ -]+$/, ""): drop the trailing run of blanks and hyphens
RECURSIVE StripTrailing(_, _)
StripTrailing(s, class) ==
  IF s # << >> /\ s[Len(s)] \in class
  THEN StripTrailing(SubSeq(s, 1, Len(s) - 1), class)
  ELSE s

\* replace(/\.[^/.]+$/, ""): drop a final extension
StripExt(s) ==
  LET dots == {i \in 1..Len(s) : s[i] = "."
                 /\ i < Len(s)
                 /\ \A j \in (i + 1)..Len(s) : s[j] \notin {"/", "."}}
  IN  IF dots = {} THEN s ELSE SubSeq(s, 1, Min(dots) - 1)

\* \d{4}-\d{2}-\d{2} matches s at position i
IsDateAt(s, i) ==
  /\ i >= 1
  /\ i + 9 <= Len(s)
  /\ \A k \in 0..9 : IF k \in {4, 7} THEN s[i + k] = "-" ELSE s[i + k] \in Digits

\* [A-Za-z0-9_-]{10} matches s at position i
IsFragAt(s, i) ==
  /\ i >= 1
  /\ i + 9 <= Len(s)
  /\ \A k \in 0..9 : s[i + k] \in FragChars

\* a suffix (compared without case, for the /i regular expressions)
EndsWithNoCase(s, suf) ==
  /\ Len(s) >= Len(suf)
  /\ ToLower(SubSeq(s, Len(s) - Len(suf) + 1, Len(s))) = ToLower(suf)

ExtMp4 == << ".", "m", "p", "4" >>

ExtTxt == << ".", "t", "x", "t" >>

NoMatch == [ok |-> FALSE, name |-> << >>, date |-> << >>]

(***************************************************************************)
(* extractStudentInfoFromFilename.                                         *)
(***************************************************************************)
\* meetRegex /^(.+?)[ _-]+(\d{4}-\d{2}-\d{2}).*$/ : the shortest name part
\* (at least one character) followed by one or more separators and a date
MeetMatch(s) ==
  LET P == {p \in 3..Len(s) : IsDateAt(s, p)}
      K == {k \in 1..Len(s) :
              \E p \in P : p > k + 1 /\ \A j \in (k + 1)..(p - 1) : s[j] \in SepChars}
  IN  IF K = {} THEN NoMatch
      ELSE LET k == Min(K)
               p == Min({q \in P : q > k + 1})
           IN  [ok |-> TRUE, name |-> SubSeq(s, 1, k), date |-> SubSeq(s, p, p + 9)]

\* processedRegex /^(.+?)_(\d{4}-\d{2}-\d{2})(?:_[A-Za-z0-9_-]{10})?$/
ProcessedMatch(s) ==
  LET K == {k \in 1..Len(s) :
              /\ k + 11 <= Len(s)
              /\ s[k + 1] = "_"
              /\ IsDateAt(s, k + 2)
              /\ \/ Len(s) = k + 11
                 \/ /\ Len(s) = k + 22
                    /\ s[k + 12] = "_"
                    /\ IsFragAt(s, k + 13)}
  IN  IF K = {} THEN NoMatch
      ELSE LET k == Min(K)
           IN  [ok |-> TRUE, name |-> SubSeq(s, 1, k), date |-> SubSeq(s, k + 2, k + 11)]

\* the name part cleaned: special characters removed, underscores to blanks,
\* white space collapsed, trailing blanks and hyphens dropped
CleanName(raw) ==
  Trim(StripTrailing(
         CollapseWhite(MapChars(Trim(RemoveChars(raw, SpecialChars)), {"_"}, " "), " "),
         {" ", "-"}))

extractStudentInfoFromFilename(fileName) ==
  LET cleaned == MapChars(Trim(StripExt(fileName)), {"/"}, "-")
      m1      == MeetMatch(cleaned)
      match   == IF m1.ok THEN m1 ELSE ProcessedMatch(cleaned)
  IN  IF match.ok /\ CleanName(match.name) # << >>
      THEN [ok |-> TRUE, name |-> CleanName(match.name), date |-> match.date]
      ELSE NoMatch

\* alreadyRenamedRegex /^(.+?)_(\d{4}-\d{2}-\d{2})_[A-Za-z0-9_-]{10}\.mp4$/i
alreadyRenamedRegex(s) ==
  /\ Len(s) >= 27
  /\ EndsWithNoCase(s, ExtMp4)
  /\ IsFragAt(s, Len(s) - 13)
  /\ s[Len(s) - 14] = "_"
  /\ IsDateAt(s, Len(s) - 24)
  /\ s[Len(s) - 25] = "_"


(***************************************************************************)
(* The Drive folder of recordings and the tracking sheet "Jobs".           *)
(***************************************************************************)
FileIds == 1..MaxFiles

DigitSeq == << "1", "2", "3", "4", "5", "6", "7", "8", "9" >>

\* file.getId(): an opaque Drive id, longer than the ten characters kept of it
FileIdStr(f) == << "1", "x", DigitSeq[f], "A", "b", "_", "C", "-", "d", "E", "f", "G" >>

\* fileId.substring(0, 10)
fileIdPrefix(f) == SubSeq(FileIdStr(f), 1, 10)

Date1 == << "2", "0", "2", "4", "-", "0", "3", "-", "0", "1" >>

Date2 == << "2", "0", "2", "4", "-", "0", "3", "-", "0", "2" >>

\* recordings as Google Meet and users name them
RawMeet == << "A", "l", " ", "B", " ", "-", " " >> \o Date1
             \o << " ", "G", "M", "T", ".", "m", "p", "4" >>

RawStar == << "B", "o", "*", "_" >> \o Date2 \o ExtMp4

RawNoDate == << "n", "o", "t", "e", "s" >> \o ExtMp4

\* what the folder may hold: (name, mime type)
RawFiles ==
  << [name |-> RawMeet,   mime |-> "video/mp4"],
     [name |-> RawStar,   mime |-> "video/mp4"],
     [name |-> RawNoDate, mime |-> "video/mp4"],
     [name |-> RawMeet,   mime |-> "text/plain"] >>

\* the folders of MaxFiles files, each listed once (the order of the ids in a
\* folder means nothing: files.next() yields them in any order)
Folders ==
  {[f \in FileIds |-> RawFiles[c[f]]] :
     c \in {c \in [FileIds -> 1..Len(RawFiles)] :
              \A f, g \in FileIds : f <= g => c[f] <= c[g]}}

\* mimeType.startsWith('video/')
IsVideo(mime) == mime = "video/mp4"

\* the opaque job handle the submission returns for a file
JobIdSeq == << "job1", "job2", "job3", "job4", "job5" >>

JobIdFor(f) == JobIdSeq[f]

\* the scripts that buffer writes to the tracking sheet
Procs == {"disc"}

VARIABLES
  variant,         \* "V8": src/unnamed/part_000, "V9": src/Code.js
  driveFiles,      \* the recordings folder: file id -> [name, mime]
  origFiles,       \* the folder as it was at the start (never changes)
  hdr,             \* row 1 of the sheet: "none", "ok", "wrong" (another text
                   \* in A1) or "rewritten" (put right, the write not yet stored)
  jobs,            \* the data rows of the sheet that are stored
  pending,         \* per script, the writes made and not yet stored
  d,               \* processNewRecordings: the locals of the current run
  sent,            \* per file, the calls of sendFileInfoToCloudRun
  sendLog,         \* per file, what each of those calls came to
  dlog,            \* the ledger and submission events of the file in hand
  nRuns,           \* the runs of processNewRecordings started so far
  lastRun,         \* the summary of the latest run that ended
  prevClean,       \* the run before that one ended normally, no rename failing
  orphaned,        \* files an interruption left renamed and without a row
  nFaults,         \* the interruptions and failed renames so far
  m,               \* monitorTranscriptionJobs: per poller, the locals of its pass
  gcs,             \* the bucket: the object names under incoming/, processed/, transcripts/
  handled,         \* per row, the calls of handleCompletedJob
  moved,           \* per row, the calls of moveFileInGCS
  uploads,         \* per row, the transcript uploads that succeeded
  passNo,          \* the poll passes started so far
  completedIn,     \* per row, the pass that wrote its final status after `done` (0: none)
  interrupted,     \* the rows whose completion handling an interruption cut short
  lastPass,        \* the summary of the latest poll pass that ended
  answers,         \* per row, the status polls made and what getJobStatus returned
  imp,             \* importTranscriptsToDrive: the locals of the current or last run
  folders,         \* per student folder, the names of the transcripts in it
  prompts,         \* the prompt files created, in order
  hwLedger,        \* the rows of the homework ledger (cells: the row as appended)
  mails,           \* the notifications sent
  config,          \* the script properties of the homework utilities: set or not
  nImports,        \* the runs of importTranscriptsToDrive started so far
  unassigned       \* transcripts an interrupted import copied and assigned no homework for

\* the state of monitorTranscriptionJobs and of the bucket
monVars == << m, gcs, handled, moved, uploads, passNo, completedIn, interrupted, lastPass,
             answers >>

\* the state of importTranscriptsToDrive and of the homework utilities
impVars == << imp, folders, prompts, hwLedger, mails, config, nImports, unassigned >>

\* the state outside processNewRecordings
restVars == << monVars, impVars >>

\* the state of processNewRecordings, the folder and its run history (the
\* sheet and the interruption count are shared)
discOnly == << variant, driveFiles, origFiles, hdr, pending, d, sent, dlog,
               nRuns, lastRun, prevClean, orphaned, sendLog >>

vars == << variant, driveFiles, origFiles, hdr, jobs, pending, d, sent, dlog,
           nRuns, lastRun, prevClean, orphaned, sendLog, nFaults, monVars, impVars >>

\* variants of the definitions below, used to test the properties: a sheet
\* read that forgets the tracked names, a loop that never deduplicates, a
\* flush that stores nothing, and a tracked test that trusts the name's shape
ExistingNames_NoDedup(rows) == {}

SkipsFile_NoDedup(existing, f) ==
  \/ ~IsVideo(driveFiles[f].mime)
  \/ ~extractStudentInfoFromFilename(driveFiles[f].name).ok

Flush_Lazy(p) == UNCHANGED << jobs, pending >>

IsAlreadyTracked_ByShape(existing, name) ==
  \/ Trim(name) \in existing
  \/ alreadyRenamedRegex(name)

\* one write to the sheet: appendRow, or setValue on a cell of a data row
ApplyOp(rows, o) ==
  IF o.op = "append" THEN Append(rows, o.row)
  ELSE IF o.idx \in 1..Len(rows) THEN [rows EXCEPT ![o.idx][o.col] = o.val]
  ELSE rows

RECURSIVE ApplyAll(_, _)
ApplyAll(rows, ops) ==
  IF ops = << >> THEN rows ELSE ApplyAll(ApplyOp(rows, Head(ops)), Tail(ops))

\* the sheet as script p reads it: what is stored plus its own writes
View(p) == ApplyAll(jobs, pending[p])

\* SpreadsheetApp.flush()
Flush(p) ==
  /\ jobs' = View(p)
  /\ pending' = [pending EXCEPT ![p] = << >>]

\* a script killed in mid-run: its buffered writes reach the sheet up to
\* some point, in order
Killed(p) ==
  /\ \E k \in 0..Len(pending[p]) : jobs' = ApplyAll(jobs, SubSeq(pending[p], 1, k))
  /\ pending' = [pending EXCEPT ![p] = << >>]

(***************************************************************************)
(* processNewRecordings.                                                   *)
(***************************************************************************)
\* a variant of the definition below, used to test the properties: the row
\* is appended as if the submission had already been made
PlaceholderStatus_Submitted == "submitted"

\* the status of the row appended before the submission
PlaceholderStatus == IF variant = "V8" THEN "processing_cloudrun" ELSE "sending_to_cloudrun"

\* new Set(dataValues.slice(1).map(row => String(row[0] || "").trim()).filter(Boolean))
ExistingNames(rows) == {Trim(rows[i].fileName) : i \in 1..Len(rows)} \ {<< >>}

\* `${standardizedStudentName}_${classDate}_${fileIdPrefix}.mp4`
CanonicalName(info, f) ==
  CollapseWhite(info.name, "_") \o << "_" >> \o info.date \o << "_" >>
    \o fileIdPrefix(f) \o ExtMp4

\* the file is already tracked: by its name, or by its name being canonical and in the sheet
IsAlreadyTracked(existing, name) ==
  \/ Trim(name) \in existing
  \/ (variant = "V8" /\ alreadyRenamedRegex(name) /\ Trim(name) \in existing)

\* the loop body's continue statements before the rename
SkipsFile(existing, f) ==
  LET file == driveFiles[f]
      info == extractStudentInfoFromFilename(file.name)
  IN  \/ ~IsVideo(file.mime)
      \/ IsAlreadyTracked(existing, file.name)
      \/ ~info.ok
      \/ CanonicalName(info, f) \in existing

\* a field of the response body: absent, a number, or a string (a job_id
\* string is a sequence of blanks and of the id)
Undefined == [type |-> "undefined", val |-> << >>]

\* no response (the call was not made, or threw before the fetch)
NoResp == [net |-> FALSE, code |-> 0, json |-> FALSE, job_id |-> Undefined, message |-> ""]

\* the text Cloud Run acknowledges a file with (Code.js)
AckMessage == "File saved to /incoming"

\* the bodies Cloud Run may answer the submission of file f with: no JSON, or
\* a JSON object with the job_id and the message given
CloudRunBodies(f) ==
  {[json |-> FALSE, job_id |-> Undefined, message |-> ""],
   [json |-> TRUE, job_id |-> Undefined, message |-> ""],
   [json |-> TRUE, job_id |-> Undefined, message |-> AckMessage],
   [json |-> TRUE, job_id |-> Undefined, message |-> "queued"],
   [json |-> TRUE, job_id |-> [type |-> "number", val |-> << >>], message |-> ""],
   [json |-> TRUE, job_id |-> [type |-> "string", val |-> << >>], message |-> ""],
   [json |-> TRUE, job_id |-> [type |-> "string", val |-> << " " >>], message |-> ""],
   [json |-> TRUE, job_id |-> [type |-> "string", val |-> << JobIdFor(f) >>],
    message |-> ""],
   [json |-> TRUE, job_id |-> [type |-> "string", val |-> << " ", JobIdFor(f), " " >>],
    message |-> AckMessage]}

\* what UrlFetchApp.fetch may come to: it throws (net), or it returns a
\* status and a body
CloudRunResponses(f) ==
  {[NoResp EXCEPT !.net = TRUE]}
    \cup {[net |-> FALSE, code |-> c, json |-> b.json, job_id |-> b.job_id,
           message |-> b.message] : c \in {200, 500}, b \in CloudRunBodies(f)}

\* Cloud Run took the recording and stored it under incoming/: it answered
\* 200 and named the job, or acknowledged the file
Stored(resp) ==
  /\ ~resp.net
  /\ resp.code = 200
  /\ resp.json
  /\ \/ resp.job_id.type = "string" /\ Trim(resp.job_id.val) # << >>
     \/ resp.message = AckMessage

\* the outcome of a call: it throws, or it returns a value ("": null)
Throws == [threw |-> TRUE, value |-> ""]

Returns(v) == [threw |-> FALSE, value |-> v]

\* a variant of the call below, used to test the properties: the status of
\* the response is not looked at
sendFileInfoToCloudRun_AnyStatus(resp) ==
  IF resp.net \/ ~resp.json THEN Returns("")
  ELSE IF /\ resp.job_id.type = "string"
          /\ resp.job_id.val # << >>
          /\ Trim(resp.job_id.val) # << >>
       THEN Returns(Trim(resp.job_id.val)[1])
       ELSE Returns("")

\* sendFileInfoToCloudRun once the payload is built: part_000 returns the
\* trimmed job_id or null, Code.js returns true or throws
sendFileInfoToCloudRun(resp) ==
  IF variant = "V8"
  THEN IF resp.net THEN Returns("")
       ELSE IF resp.code # 200 THEN Returns("")
       ELSE IF ~resp.json THEN Returns("")
       ELSE IF /\ resp.job_id.type = "string"
               /\ resp.job_id.val # << >>
               /\ Trim(resp.job_id.val) # << >>
            THEN Returns(Trim(resp.job_id.val)[1])
            ELSE Returns("")
  ELSE IF resp.net THEN Throws
       ELSE IF resp.code # 200 THEN Throws
       ELSE IF resp.json /\ resp.message = AckMessage THEN Returns("true")
       ELSE Throws

\* the locals of the loop body, before a file is taken
NoFile == [file |-> 0, newFileName |-> << >>, addedRowIndex |-> 0, jobId |-> "",
           cloudRunError |-> FALSE, finalStatus |-> "", resp |-> NoResp]

DIdle == [pc |-> "idle", todo |-> {}, existingDataSet |-> {}, cur |-> NoFile,
          fileCount |-> 0, errorCount |-> 0, calls |-> 0, renameFailed |-> FALSE,
          rows0 |-> 0, failed |-> {}]

NoRun == [done |-> FALSE, renameFailed |-> FALSE, appended |-> 0, calls |-> 0]

\* the summary a run leaves: ended normally or not, the rows the sheet gained
\* during it and the calls of sendFileInfoToCloudRun it made
Summary(done) ==
  [done |-> done, renameFailed |-> d.renameFailed, appended |-> Len(jobs') - d.rows0,
   calls |-> d.calls]

\* a run ended normally and no rename failed in it
Clean(run) == run.done /\ ~run.renameFailed

EndOfRun(done) ==
  /\ lastRun' = Summary(done)
  /\ prevClean' = Clean(lastRun)
  /\ d' = DIdle
  /\ dlog' = << >>

\* the run starts: the header row is ensured and the tracked names are read.
\* On an empty sheet the header is appended and flushed; part_000 rewrites a
\* row 1 that does not start with "File Name" and goes on without a flush
D_Start ==
  /\ d.pc = "idle"
  /\ nRuns < MaxRuns
  /\ nRuns' = nRuns + 1
  /\ hdr' = IF hdr = "none" THEN "ok"
            ELSE IF hdr = "wrong" /\ variant = "V8" THEN "rewritten"
            ELSE hdr
  /\ d' = [DIdle EXCEPT !.pc = "loop", !.todo = FileIds, !.rows0 = Len(jobs),
                        !.existingDataSet = ExistingNames(View("disc"))]
  /\ UNCHANGED << sendLog, variant, driveFiles, origFiles, jobs, pending, sent, dlog,
                  lastRun, prevClean, orphaned, nFaults,
                  restVars >>

\* files.next() yields a file the loop body skips
D_SkipFile ==
  /\ d.pc = "loop"
  /\ \E f \in d.todo :
       /\ SkipsFile(d.existingDataSet, f)
       /\ d' = [d EXCEPT !.todo = @ \ {f}]
  /\ dlog' = << >>
  /\ UNCHANGED << sendLog, variant, driveFiles, origFiles, hdr, jobs, pending, sent,
                  nRuns, lastRun, prevClean, orphaned, nFaults,
                  restVars >>

\* files.next() yields a new recording
D_TakeFile ==
  /\ d.pc = "loop"
  /\ \E f \in d.todo :
       /\ ~SkipsFile(d.existingDataSet, f)
       /\ d' = [d EXCEPT !.todo = @ \ {f}, !.pc = "rename",
                  !.cur = [NoFile EXCEPT !.file = f,
                             !.newFileName = CanonicalName(
                                extractStudentInfoFromFilename(driveFiles[f].name), f)]]
  /\ dlog' = << >>
  /\ UNCHANGED << sendLog, variant, driveFiles, origFiles, hdr, jobs, pending, sent,
                  nRuns, lastRun, prevClean, orphaned, nFaults,
                  restVars >>

\* file.setName(newFileName)
D_RenameOk ==
  /\ d.pc = "rename"
  /\ driveFiles' = [driveFiles EXCEPT ![d.cur.file].name = d.cur.newFileName]
  /\ d' = [d EXCEPT !.pc = "append"]
  /\ UNCHANGED << sendLog, variant, origFiles, hdr, jobs, pending, sent, dlog,
                  nRuns, lastRun, prevClean, orphaned, nFaults,
                  restVars >>

\* a variant of the catch block below, used to test the properties: the
\* scan is given up
RenameFailed_Aborts(dd) ==
  [dd EXCEPT !.pc = "loop", !.errorCount = @ + 1, !.renameFailed = TRUE,
             !.failed = @ \cup {dd.cur.file}, !.cur = NoFile, !.todo = {}]

\* catch (renameError): errorCount++; continue
RenameFailed(dd) ==
  [dd EXCEPT !.pc = "loop", !.errorCount = @ + 1, !.renameFailed = TRUE,
             !.failed = @ \cup {dd.cur.file}, !.cur = NoFile]

\* file.setName throws: errorCount++ and the file is skipped
D_RenameFail ==
  /\ d.pc = "rename"
  /\ nFaults < MaxFaults
  /\ nFaults' = nFaults + 1
  /\ d' = RenameFailed(d)
  /\ UNCHANGED << sendLog, variant, driveFiles, origFiles, hdr, jobs, pending, sent, dlog,
                  nRuns, lastRun, prevClean, orphaned,
                  restVars >>

\* sheet.appendRow([newFileName, "", placeholder, timestamp]); sheet.getLastRow()
D_Append ==
  /\ d.pc = "append"
  /\ pending' = [pending EXCEPT !["disc"] =
        Append(@, [op |-> "append",
                   row |-> [fileName |-> d.cur.newFileName, jobId |-> "",
                            status |-> PlaceholderStatus]])]
  /\ d' = [d EXCEPT !.pc = "flush1", !.cur.addedRowIndex = Len(View("disc")) + 2]
  /\ dlog' = Append(dlog, "append")
  /\ UNCHANGED << sendLog, variant, driveFiles, origFiles, hdr, jobs, sent,
                  nRuns, lastRun, prevClean, orphaned, nFaults,
                  restVars >>

\* SpreadsheetApp.flush(); existingDataSet.add(newFileName); fileCount++
D_Flush1 ==
  /\ d.pc = "flush1"
  /\ Flush("disc")
  /\ d' = [d EXCEPT !.pc = "send", !.existingDataSet = @ \cup {d.cur.newFileName},
                    !.fileCount = @ + 1]
  /\ dlog' = Append(dlog, "flush")
  /\ hdr' = IF hdr = "rewritten" THEN "ok" ELSE hdr
  /\ UNCHANGED << sendLog, variant, driveFiles, origFiles, sent,
                  nRuns, lastRun, prevClean, orphaned, nFaults,
                  restVars >>

\* a variant of the definition below, used to test the properties: a failed
\* submission is recorded like one that was accepted
FinalStatus_AlwaysSubmitted(cloudRunError, jobId) ==
  IF variant = "V8" THEN "submitted" ELSE "processing_transcription"

\* the status written after the submission
FinalStatus(cloudRunError, jobId) ==
  IF variant = "V8"
  THEN IF cloudRunError THEN "cloudrun_error"
       ELSE IF jobId # "" THEN "submitted"
       ELSE "cloudrun_no_jobid"
  ELSE IF cloudRunError THEN "cloudrun_error" ELSE "processing_transcription"

\* what a call of sendFileInfoToCloudRun leaves in the locals: whether it
\* threw, and the job id it returned
AfterSend(resp, threw, jobId) ==
  /\ d' = [d EXCEPT !.pc = "final", !.cur.jobId = jobId, !.cur.cloudRunError = threw,
                    !.cur.finalStatus = FinalStatus(threw, jobId),
                    !.cur.resp = resp,
                    !.errorCount = IF threw THEN @ + 1 ELSE @,
                    !.calls = @ + 1]
  /\ sent' = [sent EXCEPT ![d.cur.file] = @ + 1]
  /\ sendLog' = [sendLog EXCEPT ![d.cur.file] =
                   Append(@, [threw |-> threw, jobId |-> jobId, written |-> FALSE])]
  /\ dlog' = Append(dlog, "send")
  /\ gcs' = IF Stored(resp) THEN [gcs EXCEPT !.incoming = @ \cup {d.cur.newFileName}]
            ELSE gcs
  /\ UNCHANGED << variant, driveFiles, origFiles, hdr, jobs, pending,
                  nRuns, lastRun, prevClean, orphaned, nFaults,
                  m, handled, moved, uploads, passNo, completedIn, interrupted, lastPass,
                  answers, impVars >>

\* V8: Cloud Run answers 200 with a job_id
D_SendJobId ==
  /\ d.pc = "send"
  /\ variant = "V8"
  /\ \E resp \in CloudRunResponses(d.cur.file) :
       LET r == sendFileInfoToCloudRun(resp)
       IN  ~r.threw /\ r.value # "" /\ AfterSend(resp, FALSE, r.value)

\* V8: network error, a status other than 200, or a body without job_id: null
D_SendNull ==
  /\ d.pc = "send"
  /\ variant = "V8"
  /\ \E resp \in CloudRunResponses(d.cur.file) :
       LET r == sendFileInfoToCloudRun(resp)
       IN  ~r.threw /\ r.value = "" /\ AfterSend(resp, FALSE, "")

\* V8: the call throws while the payload is built (file.getId())
D_SendThrowsEarly ==
  /\ d.pc = "send"
  /\ variant = "V8"
  /\ AfterSend(NoResp, TRUE, "")

\* V9: Cloud Run answers 200 {"message": "File saved to /incoming"}: true
D_SendAccepted ==
  /\ d.pc = "send"
  /\ variant = "V9"
  /\ \E resp \in CloudRunResponses(d.cur.file) :
       LET r == sendFileInfoToCloudRun(resp)
       IN  ~r.threw /\ r.value = "true" /\ AfterSend(resp, FALSE, "")

\* V9: network error, a status other than 200 or an unexpected body: all throw
D_SendThrows ==
  /\ d.pc = "send"
  /\ variant = "V9"
  /\ \E resp \in CloudRunResponses(d.cur.file) :
       sendFileInfoToCloudRun(resp).threw /\ AfterSend(resp, TRUE, "")

\* the cells written after the submission: V8 job id and status, V9 status
FinalWrites ==
  LET i == d.cur.addedRowIndex - 1
      setStatus == [op |-> "set", idx |-> i, col |-> "status", val |-> d.cur.finalStatus]
      setJobId  == [op |-> "set", idx |-> i, col |-> "jobId", val |-> d.cur.jobId]
  IN  IF variant = "V8" THEN << setJobId, setStatus >> ELSE << setStatus >>

\* sheet.getRange(addedRowIndex, 2 / 3 / 4).setValue(...)
D_FinalWrite ==
  /\ d.pc = "final"
  /\ pending' = [pending EXCEPT !["disc"] = @ \o FinalWrites]
  /\ d' = [d EXCEPT !.pc = "flush2"]
  /\ dlog' = Append(dlog, "write")
  /\ UNCHANGED << sendLog, variant, driveFiles, origFiles, hdr, jobs, sent,
                  nRuns, lastRun, prevClean, orphaned, nFaults,
                  restVars >>

\* SpreadsheetApp.flush() at the end of the loop body
D_Flush2 ==
  /\ d.pc = "flush2"
  /\ Flush("disc")
  /\ d' = [d EXCEPT !.pc = "loop", !.cur = NoFile]
  /\ sendLog' = [sendLog EXCEPT ![d.cur.file] =
                   [@ EXCEPT ![Len(@)].written = TRUE]]
  /\ dlog' = Append(dlog, "flush")
  /\ hdr' = IF hdr = "rewritten" THEN "ok" ELSE hdr
  /\ UNCHANGED << variant, driveFiles, origFiles, sent,
                  nRuns, lastRun, prevClean, orphaned, nFaults,
                  restVars >>

\* files.hasNext() is false: the run ends
D_Finish ==
  /\ d.pc = "loop"
  /\ d.todo = {}
  /\ Flush("disc")
  /\ hdr' = IF hdr = "rewritten" THEN "ok" ELSE hdr
  /\ EndOfRun(TRUE)
  /\ UNCHANGED << sendLog, variant, driveFiles, origFiles, sent, nRuns, orphaned, nFaults,
                  restVars >>

\* a file has been renamed by the script
Renamed(f) == driveFiles[f].name # origFiles[f].name

\* the rows of a sheet that carry the name of file f
RowsOf(rows, f) == {i \in 1..Len(rows) : rows[i].fileName = driveFiles[f].name}

\* the run is interrupted (time limit, quota, an exception of the sheet)
D_Crash ==
  /\ d.pc # "idle"
  /\ nFaults < MaxFaults
  /\ nFaults' = nFaults + 1
  /\ Killed("disc")
  /\ hdr' \in IF hdr = "rewritten" THEN {"wrong", "ok"} ELSE {hdr}
  /\ EndOfRun(FALSE)
  /\ orphaned' = orphaned \cup {f \in FileIds : Renamed(f) /\ RowsOf(jobs', f) = {}}
  /\ UNCHANGED << sendLog, variant, driveFiles, origFiles, sent, nRuns,
                  restVars >>

(***************************************************************************)
(* monitorTranscriptionJobs, getJobStatus, handleCompletedJob and          *)
(* moveFileInGCS.                                                          *)
(***************************************************************************)
\* the pollers: one trigger, and a second one for overlapping passes
Pollers == {"mon1", "mon2"}

terminalStatuses ==
  {"done", "rejected", "processing_error", "gcs_error", "transcript_fetch_error",
   "submission_error", "submission_exception", "cloudrun_error", "cloudrun_no_jobid",
   "not_found", "error_fetching_status", "exception_fetching_status",
   "error_parsing_response", "error_unauthorized", "error_missing_jobid",
   "gcs_move_error"}

submittedStatuses == {"submitted", "running", "processing"}

\* variants of the definitions below, used to test the properties: a marker
\* that is not polled, a loop that skips only blank rows, a status write
\* that is not stored
IsActive_NoMarker(status) == status \in {"submitted", "running", "processing"}

SkipsRow_OnlyBlank(row) == Trim(row.fileName) = << >>

WriteStatus_Lost(rows, idx, status) == rows

LacksJobId_Never(row) == FALSE

\* the statuses the poller polls
IsActive(status) == status \in submittedStatuses \/ status = "processing_transcript"

\* `error_fetching_${responseCode}`
ErrorFetching(code) == IF code = 500 THEN "error_fetching_500" ELSE "error_fetching_503"

\* getJobStatus: the status for a response of the provider (code 0: the fetch
\* threw; status "": a 200 body without job.status)
getJobStatus(resp) ==
  IF resp.code = 0 THEN "exception_fetching_status"
  ELSE IF resp.code = 200
       THEN IF resp.status # "" THEN resp.status ELSE "error_parsing_response"
  ELSE IF resp.code = 401 THEN "error_unauthorized"
  ELSE IF resp.code = 404 THEN "not_found"
  ELSE IF resp.code = 429 THEN "rate_limited"
  ELSE ErrorFetching(resp.code)

\* what the provider may answer to a status poll
ProviderResponses ==
  {[code |-> 200, status |-> st] : st \in {"done", "running", "rejected", ""}}
    \cup {[code |-> c, status |-> ""] : c \in {0, 401, 404, 429, 500}}

\* String.prototype.includes
Includes(s, sub) ==
  \E i \in 1..(Len(s) - Len(sub) + 1) : SubSeq(s, i, i + Len(sub) - 1) = sub

WordTranscript == << "t", "r", "a", "n", "s", "c", "r", "i", "p", "t" >>

WordGcsUpload == << "g", "c", "s", " ", "u", "p", "l", "o", "a", "d" >>

WordMoveGcs == << "m", "o", "v", "e", "g", "c", "s" >>

NoError == << >>

\* "Transcript fetch error: ..."
MsgTranscriptFetch ==
  << "T", "r", "a", "n", "s", "c", "r", "i", "p", "t", " ", "f", "e", "t", "c", "h",
     " ", "e", "r", "r", "o", "r" >>

\* "GCS upload error: ..."
MsgGcsUpload ==
  << "G", "C", "S", " ", "u", "p", "l", "o", "a", "d", " ", "e", "r", "r", "o", "r" >>

\* "MoveGCS check source error: incoming/<fileName>" and its siblings for the
\* copy and the delete (the step's own words are left out)
MsgMoveGcs(fileName) ==
  << "M", "o", "v", "e", "G", "C", "S", " ", "e", "r", "r", "o", "r", ":", " ",
     "i", "n", "c", "o", "m", "i", "n", "g", "/" >> \o fileName

\* the status for an exception of the completion handling, by its message
SpecificErrorStatus(message) ==
  LET low == ToLower(message)
  IN  IF Includes(low, WordTranscript) THEN "transcript_fetch_error"
      ELSE IF Includes(low, WordGcsUpload) THEN "gcs_error"
      ELSE IF Includes(low, WordMoveGcs) THEN "gcs_move_error"
      ELSE "processing_error"

\* fileName.replace(/\.mp4$/i, '') + ".txt"
TranscriptName(fileName) ==
  (IF EndsWithNoCase(fileName, ExtMp4) THEN SubSeq(fileName, 1, Len(fileName) - 4)
   ELSE fileName) \o ExtTxt

\* nameFormatRegex /.+_\d{4}-\d{2}-\d{2}_[A-Za-z0-9_-]{10}\.mp4$/i
nameFormatRegex(s) ==
  /\ Len(s) >= 27
  /\ EndsWithNoCase(s, ExtMp4)
  /\ IsFragAt(s, Len(s) - 13)
  /\ s[Len(s) - 14] = "_"
  /\ IsDateAt(s, Len(s) - 24)
  /\ s[Len(s) - 25] = "_"

\* a variant of the definition below, used to test the properties: the
\* tracking title is never looked at
transcriptFileName_LocalOnly(trackingTitle, fileName) == TranscriptName(fileName)

\* transcriptFileName: from the tracking title (<< >>: null) when it has the
\* format of a renamed recording, from the row's file name otherwise
transcriptFileName(trackingTitle, fileName) ==
  IF trackingTitle # << >> /\ nameFormatRegex(trackingTitle)
  THEN TranscriptName(trackingTitle)
  ELSE TranscriptName(fileName)

\* the answers of the provider to the job details request for a row: a
\* title in the format of a renamed recording that is not the row's name, a
\* title in another format, no title, and a failed request
JobDetails(fileName) ==
  {[code |-> 200, title |-> << "Z" >> \o fileName],
   [code |-> 200, title |-> << "A", "l", " ", "B" >> \o ExtMp4],
   [code |-> 200, title |-> << >>],
   [code |-> 500, title |-> << "Z" >> \o fileName]}

\* the rows of the sheet
RowIds == 1..MaxFiles

\* the name discovery gives to recording f
RowName(f) ==
  CanonicalName(extractStudentInfoFromFilename(RawFiles[((f - 1) % 2) + 1].name), f)

\* the rows discovery can leave for a recording, and a row that lost its job id
RowShapes(f) ==
  {[fileName |-> RowName(f), jobId |-> JobIdFor(f), status |-> "submitted"],
   [fileName |-> RowName(f), jobId |-> "", status |-> "submitted"],
   [fileName |-> RowName(f), jobId |-> "", status |-> "processing_transcript"],
   [fileName |-> RowName(f), jobId |-> "", status |-> "processing_cloudrun"],
   [fileName |-> RowName(f), jobId |-> "", status |-> "cloudrun_error"]}

\* head: the answer to the source check of moveFileInGCS for the row in hand
\* (0: none yet) and the bucket as it was then; failedAt: the step of the
\* completion handling that threw ("none", "fetch", "upload", "move");
\* title: trackingTitle of handleCompletedJob (<< >>: null); body: the text
\* the transcript request answered with ("none": no answer with status 200)
MIdle == [pc |-> "idle", data |-> << >>, i |-> 0, no |-> 0, err |-> NoError,
          term0 |-> {}, marked0 |-> {}, polled |-> {}, doneSeen |-> {},
          began |-> {}, wrote |-> {}, failedAt |-> "none", title |-> << >>,
          body |-> "none",
          head |-> [code |-> 0,
                    bucket |-> [incoming |-> {}, processed |-> {}, transcripts |-> {}]]]

NoPass == [done |-> FALSE, no |-> 0, marked0 |-> {}, polled |-> {}, doneSeen |-> {},
           began |-> {}]

\* statusCell.setValue(status); SpreadsheetApp.flush()
WriteStatus(rows, idx, status) ==
  ApplyOp(rows, [op |-> "set", idx |-> idx, col |-> "status", val |-> status])

\* the row the loop is at, as the pass read it at its start
Cur(p) == m[p].data[m[p].i]

\* the continue statements that leave a row alone: no file name, a terminal
\* status, or a status that is not polled
SkipsRow(row) ==
  \/ Trim(row.fileName) = << >>
  \/ row.status \in terminalStatuses
  \/ ~IsActive(row.status)

\* a polled status without a job id
LacksJobId(row) ==
  /\ Trim(row.fileName) # << >>
  /\ row.status \notin terminalStatuses
  /\ IsActive(row.status)
  /\ row.jobId = ""

NextRow(p) == [m[p] EXCEPT !.i = @ + 1, !.pc = "row", !.err = NoError, !.head = MIdle.head,
                           !.failedAt = "none", !.title = << >>, !.body = "none"]

\* the pass starts: the rows are read once (the sheet has a data row)
M_Begin(p) ==
  /\ m[p].pc = "idle"
  /\ passNo < MaxRuns
  /\ Len(jobs) >= 1
  /\ passNo' = passNo + 1
  /\ m' = [m EXCEPT ![p] =
        [MIdle EXCEPT !.pc = "row", !.data = jobs, !.i = 1, !.no = passNo + 1,
           !.term0 = {r \in 1..Len(jobs) : jobs[r].status \in terminalStatuses},
           !.marked0 = {r \in 1..Len(jobs) :
                          jobs[r].status = "processing_transcript" /\ jobs[r].jobId # ""}]]
  /\ UNCHANGED << answers, jobs, nFaults, discOnly, impVars, gcs, handled, moved, uploads, completedIn,
                  interrupted, lastPass >>

M_SkipRow(p) ==
  /\ m[p].pc = "row"
  /\ m[p].i <= Len(m[p].data)
  /\ SkipsRow(Cur(p))
  /\ m' = [m EXCEPT ![p] = NextRow(p)]
  /\ UNCHANGED << answers, jobs, nFaults, discOnly, impVars, gcs, handled, moved, uploads, passNo,
                  completedIn, interrupted, lastPass >>

\* the row is marked error_missing_jobid
M_MissingJobId(p) ==
  /\ m[p].pc = "row"
  /\ m[p].i <= Len(m[p].data)
  /\ LacksJobId(Cur(p))
  /\ jobs' = WriteStatus(jobs, m[p].i, "error_missing_jobid")
  /\ m' = [m EXCEPT ![p] = [NextRow(p) EXCEPT !.wrote = @ \cup {m[p].i}]]
  /\ UNCHANGED << answers, nFaults, discOnly, impVars, gcs, handled, moved, uploads, passNo,
                  completedIn, interrupted, lastPass >>

\* the log of the polls, with the poll of the row in hand: the pass, the
\* provider's response, the status getJobStatus returned for it, and the row
\* as the sheet held it
Answered(p, resp, newStatus) ==
  [answers EXCEPT ![m[p].i] =
     Append(@, [no |-> m[p].no, resp |-> resp, st |-> newStatus, row |-> jobs[m[p].i]])]

\* the row is polled
Polls(p) ==
  /\ m[p].pc = "row"
  /\ m[p].i <= Len(m[p].data)
  /\ ~SkipsRow(Cur(p))
  /\ ~LacksJobId(Cur(p))

\* the provider reports done: the row is held at processing_transcript and
\* handleCompletedJob is called
M_PollDone(p) ==
  /\ Polls(p)
  /\ Cur(p).status # "done"
  /\ \E resp \in ProviderResponses :
       getJobStatus(resp) = "done" /\ answers' = Answered(p, resp, "done")
  /\ jobs' = WriteStatus(jobs, m[p].i, "processing_transcript")
  /\ m' = [m EXCEPT ![p].pc = "fetch", ![p].polled = @ \cup {m[p].i},
                    ![p].doneSeen = @ \cup {m[p].i}, ![p].began = @ \cup {m[p].i},
                    ![p].wrote = @ \cup {m[p].i}]
  /\ handled' = [handled EXCEPT ![m[p].i] = @ + 1]
  /\ UNCHANGED << nFaults, discOnly, impVars, gcs, moved, uploads, passNo, completedIn,
                  interrupted, lastPass >>

\* variants of the definition below, used to test the properties: a terminal
\* answer is not written, and rate_limited is written like any other status
StatusToWrite_TerminalDropped(localStatus, newStatus) ==
  IF newStatus \in {"done", "rate_limited"} \cup terminalStatuses THEN << >>
  ELSE IF newStatus # localStatus /\ newStatus # "" THEN << newStatus >>
  ELSE << >>

StatusToWrite_RateLimitWritten(localStatus, newStatus) ==
  IF newStatus = "done" THEN << >>
  ELSE IF newStatus # localStatus /\ newStatus # "" THEN << newStatus >>
  ELSE << >>

\* the cell a poll with another answer writes (none: << >>)
StatusToWrite(localStatus, newStatus) ==
  IF newStatus \in {"done", "rate_limited"} THEN << >>
  ELSE IF newStatus \in terminalStatuses
       THEN IF newStatus # localStatus THEN << newStatus >> ELSE << >>
  ELSE IF newStatus # localStatus /\ newStatus # "" THEN << newStatus >>
  ELSE << >>

\* the provider reports anything else (or done for a row read as done)
M_PollOther(p) ==
  /\ Polls(p)
  /\ \E resp \in ProviderResponses :
       LET newStatus == getJobStatus(resp)
           w == StatusToWrite(Cur(p).status, newStatus)
       IN  /\ newStatus = "done" => Cur(p).status = "done"
           /\ jobs' = IF w = << >> THEN jobs ELSE WriteStatus(jobs, m[p].i, w[1])
           /\ answers' = Answered(p, resp, newStatus)
           /\ m' = [m EXCEPT ![p] =
                 [NextRow(p) EXCEPT !.polled = @ \cup {m[p].i},
                    !.wrote = IF w = << >> THEN @ ELSE @ \cup {m[p].i}]]
  /\ UNCHANGED << nFaults, discOnly, impVars, gcs, handled, moved, uploads, passNo,
                  completedIn, interrupted, lastPass >>

\* a variant of the definition below, used to test the properties: an empty
\* transcript is a failed fetch
TranscriptFetched_NonEmpty(resp) == resp.code = 200 /\ resp.body # ""

\* the transcript request succeeded: the status is 200; an empty body is
\* logged and kept
TranscriptFetched(resp) == resp.code = 200

\* handleCompletedJob: the job details and the transcript are fetched (the
\* transcript request answers 200 with a text or with an empty body, or fails)
M_FetchTranscript(p) ==
  /\ m[p].pc = "fetch"
  /\ \E resp \in {[code |-> 200, body |-> "text"], [code |-> 200, body |-> ""],
                   [code |-> 500, body |-> "text"]},
        det \in JobDetails(Cur(p).fileName) :
     LET ok == TranscriptFetched(resp) IN
       m' = [m EXCEPT ![p].pc = IF ok THEN "upload" ELSE "final",
                      ![p].err = IF ok THEN NoError ELSE MsgTranscriptFetch,
                      ![p].failedAt = IF ok THEN @ ELSE "fetch",
                      ![p].body = IF resp.code = 200 THEN resp.body ELSE "none",
                      ![p].title = IF det.code = 200 THEN det.title ELSE << >>]
  /\ UNCHANGED << answers, jobs, nFaults, discOnly, impVars, gcs, handled, moved, uploads, passNo,
                  completedIn, interrupted, lastPass >>

\* handleCompletedJob: the transcript is uploaded to transcripts/; the
\* upload succeeds, is refused (the response text, left out, follows the
\* message), or the fetch throws and the text of its exception, which quotes
\* the address with the object name in it, follows the message
M_Upload(p) ==
  /\ m[p].pc = "upload"
  /\ \E out \in {"ok", "refused", "threw"} :
     LET ok == out = "ok" IN
       /\ m' = [m EXCEPT ![p].pc = IF ok THEN "check" ELSE "final",
                         ![p].err =
                            IF ok THEN NoError
                            ELSE IF out = "refused" THEN MsgGcsUpload
                            ELSE MsgGcsUpload \o << ":", " ", "n", "a", "m", "e", "=",
                                                    "t", "r", "a", "n", "s", "c", "r", "i",
                                                    "p", "t", "s", "/" >>
                                   \o transcriptFileName(m[p].title, Cur(p).fileName),
                         ![p].failedAt = IF ok THEN @ ELSE "upload"]
       /\ gcs' = IF ok
                 THEN [gcs EXCEPT !.transcripts =
                         @ \cup {transcriptFileName(m[p].title, Cur(p).fileName)}]
                 ELSE gcs
       /\ uploads' = IF ok THEN [uploads EXCEPT ![m[p].i] = @ + 1] ELSE uploads
  /\ UNCHANGED << answers, jobs, nFaults, discOnly, impVars, handled, moved, passNo, completedIn,
                  interrupted, lastPass >>

\* a variant of the definition below, used to test the properties: a missing
\* source is copied like a present one
SourceCheck_IgnoresAbsence(code, fileName) ==
  [pc |-> IF code \in {200, 404} THEN "copy" ELSE "final",
   err |-> IF code \in {200, 404} THEN NoError ELSE MsgMoveGcs(fileName)]

\* moveFileInGCS after the source check answered with that code: 404 returns,
\* any other code than 200 (or a fetch that threw, as 500) throws the check
\* error, 200 goes on to the copy
SourceCheck(code, fileName) ==
  [pc |-> IF code = 200 THEN "copy" ELSE "final",
   err |-> IF code \in {200, 404} THEN NoError ELSE MsgMoveGcs(fileName)]

\* moveFileInGCS: the source is looked up; if it is absent the move is skipped
M_MoveCheck(p) ==
  /\ m[p].pc = "check"
  /\ moved' = [moved EXCEPT ![m[p].i] = @ + 1]
  /\ \E code \in IF Cur(p).fileName \in gcs.incoming THEN {200, 500} ELSE {404, 500} :
       m' = [m EXCEPT ![p].pc = SourceCheck(code, Cur(p).fileName).pc,
                      ![p].err = SourceCheck(code, Cur(p).fileName).err,
                      ![p].failedAt = IF code \in {200, 404} THEN @ ELSE "move",
                      ![p].head = [code |-> code, bucket |-> gcs]]
  /\ UNCHANGED << answers, jobs, nFaults, discOnly, impVars, gcs, handled, uploads, passNo, completedIn,
                  interrupted, lastPass >>

\* a variant of the definition below, used to test the properties: the
\* source is deleted whatever the copy answered
AfterCopy_DeleteAnyway(ok) == "delete"

\* moveFileInGCS after the copy: a status other than 200 throws, and the
\* delete is reached only past it
AfterCopy(ok) == IF ok THEN "delete" ELSE "final"

\* moveFileInGCS: the source is copied to processed/
M_MoveCopy(p) ==
  /\ m[p].pc = "copy"
  /\ \E ok \in {o \in BOOLEAN : o => Cur(p).fileName \in gcs.incoming} :
       /\ m' = [m EXCEPT ![p].pc = AfterCopy(ok),
                         ![p].err = IF ok THEN NoError ELSE MsgMoveGcs(Cur(p).fileName),
                         ![p].failedAt = IF ok THEN @ ELSE "move"]
       /\ gcs' = IF ok THEN [gcs EXCEPT !.processed = @ \cup {Cur(p).fileName}] ELSE gcs
  /\ UNCHANGED << answers, jobs, nFaults, discOnly, impVars, handled, moved, uploads, passNo,
                  completedIn, interrupted, lastPass >>

\* moveFileInGCS: the source is deleted
M_MoveDelete(p) ==
  /\ m[p].pc = "delete"
  /\ \E ok \in {o \in BOOLEAN : o => Cur(p).fileName \in gcs.incoming} :
       /\ m' = [m EXCEPT ![p].pc = "final",
                         ![p].err = IF ok THEN NoError ELSE MsgMoveGcs(Cur(p).fileName),
                         ![p].failedAt = IF ok THEN @ ELSE "move"]
       /\ gcs' = IF ok THEN [gcs EXCEPT !.incoming = @ \ {Cur(p).fileName}] ELSE gcs
  /\ UNCHANGED << answers, jobs, nFaults, discOnly, impVars, handled, moved, uploads, passNo,
                  completedIn, interrupted, lastPass >>

\* the final status of the row is written: done, or the status of the error
M_Final(p) ==
  /\ m[p].pc = "final"
  /\ jobs' = WriteStatus(jobs, m[p].i,
                IF m[p].err = NoError THEN "done" ELSE SpecificErrorStatus(m[p].err))
  /\ m' = [m EXCEPT ![p] = NextRow(p)]
  /\ completedIn' = [completedIn EXCEPT ![m[p].i] = IF @ = 0 THEN m[p].no ELSE @]
  /\ UNCHANGED << answers, nFaults, discOnly, impVars, gcs, handled, moved, uploads, passNo,
                  interrupted, lastPass >>

PassSummary(p, done) ==
  [done |-> done, no |-> m[p].no, marked0 |-> m[p].marked0, polled |-> m[p].polled,
   doneSeen |-> m[p].doneSeen, began |-> m[p].began]

\* the loop is over: the pass ends
M_End(p) ==
  /\ m[p].pc = "row"
  /\ m[p].i > Len(m[p].data)
  /\ lastPass' = PassSummary(p, TRUE)
  /\ m' = [m EXCEPT ![p] = MIdle]
  /\ UNCHANGED << answers, jobs, nFaults, discOnly, impVars, gcs, handled, moved, uploads, passNo,
                  completedIn, interrupted >>

\* the pass is interrupted (time limit, quota, an exception of the sheet)
M_Crash(p) ==
  /\ m[p].pc # "idle"
  /\ nFaults < MaxFaults
  /\ nFaults' = nFaults + 1
  /\ lastPass' = PassSummary(p, FALSE)
  /\ interrupted' = IF m[p].pc \in {"fetch", "upload", "check", "copy", "delete", "final"}
                    THEN interrupted \cup {m[p].i} ELSE interrupted
  /\ m' = [m EXCEPT ![p] = MIdle]
  /\ UNCHANGED << answers, jobs, discOnly, impVars, gcs, handled, moved, uploads, passNo, completedIn >>

(***************************************************************************)
(* importTranscriptsToDrive, assignHomework, saveHomeworkPrompt and        *)
(* rosterFindByEmail.                                                      *)
(***************************************************************************)
\* the rows of Current_Students below the header: name, e-mail address,
\* Drive folder and id of each student (each student has an address of their
\* own; the third has a hyphen in the name)
Roster ==
  << [name |-> << "A", "l", " ", "B" >>, email |-> "al@x", folderId |-> "folderA",
      studentId |-> "S1"],
     [name |-> << "B", "o" >>, email |-> "bo@x", folderId |-> "folderB",
      studentId |-> "S2"],
     [name |-> << "C", "y", "-", "D" >>, email |-> "cy@x", folderId |-> "folderC",
      studentId |-> "S3"] >>

Emails == {Roster[r].email : r \in 1..Len(Roster)}

FolderIds == {Roster[r].folderId : r \in 1..Len(Roster)}

\* the objects that may lie under transcripts/, in the order the bucket
\* lists them (by name): three of Al B (one spelled "al-b", without id
\* fragment), one of Bo, one marked with an asterisk, one of Cy-D, one of
\* nobody on the roster and one that is no transcript name
TranscriptPool ==
  << TranscriptName(RowName(1)),
     TranscriptName(RowName(3)),
     << "B", "o", "*", "_" >> \o Date2 \o ExtTxt,
     TranscriptName(RowName(2)),
     TranscriptName(CanonicalName([name |-> Roster[3].name, date |-> Date1], 1)),
     << "C", "y", "_" >> \o Date1 \o ExtTxt,
     << "a", "l", "-", "b", "_" >> \o Date2 \o ExtTxt,
     << "n", "o", "t", "e", "s" >> \o ExtTxt >>

\* listGCSFiles(bucket, "transcripts/", ['text/plain'])
Listing(objects) ==
  LET In(name) == name \in objects IN SelectSeq(TranscriptPool, In)

\* fileNameRelative.match(/^(.+?)_(\d{4}-\d{2}-\d{2})(?:_[A-Za-z0-9_-]{10})?\.txt$/i)
TranscriptMatch(name) ==
  IF EndsWithNoCase(name, ExtTxt)
  THEN ProcessedMatch(SubSeq(name, 1, Len(name) - 4))
  ELSE NoMatch

\* the character class of warningCharsRegex, replaced by a blank
WarningChars == {"+", "-", "~", "grave", "'"}

\* the name part of a transcript as it is looked up in the roster map
StudentNameProcessed(raw) ==
  Trim(ToLower(CollapseWhite(
         MapChars(MapChars(raw, WarningChars, " "), {"_"}, " "), " ")))

\* the key of a roster row: nameRaw.toLowerCase().replace(/_/g, " ").trim()
RosterKey(nameRaw) == Trim(MapChars(ToLower(nameRaw), {"_"}, " "))

\* rosterMap.get: the first roster row with that key (0: none)
RosterLookup(key) ==
  LET R == {r \in 1..Len(Roster) : RosterKey(Roster[r].name) = key}
  IN  IF R = {} THEN 0 ELSE Min(R)

\* rosterFindByEmail: the first roster row with that address (0: none, also
\* when ROSTER_DRIVE_FOLDER_ID is not set)
rosterFindByEmail(email) ==
  LET R == {r \in 1..Len(Roster) : Roster[r].email = email}
  IN  IF ~config.driveCol \/ R = {} THEN 0 ELSE Min(R)

\* a variant of the definition below, used to test the properties: an
\* asterisk in the name part is a character like another
Classify_NoAsterisk(name) ==
  LET mt == TranscriptMatch(name)
  IN  IF ~mt.ok THEN "format"
      ELSE IF StudentNameProcessed(mt.name) = << >> THEN "nomatch"
      ELSE IF RosterLookup(StudentNameProcessed(mt.name)) = 0 THEN "nomatch"
      ELSE "match"

\* what the loop body does with a transcript before any content is fetched
Classify(name) ==
  LET mt == TranscriptMatch(name)
  IN  IF ~mt.ok THEN "format"
      ELSE IF \E i \in 1..Len(mt.name) : mt.name[i] = "*" THEN "asterisk"
      ELSE IF StudentNameProcessed(mt.name) = << >> THEN "nomatch"
      ELSE IF RosterLookup(StudentNameProcessed(mt.name)) = 0 THEN "nomatch"
      ELSE "match"

\* the roster row a matching transcript belongs to
OwnerOf(name) == Roster[RosterLookup(StudentNameProcessed(TranscriptMatch(name).name))]

AddToBatch_PerFile(batches, email, name) ==
  Append(batches, [email |-> email, files |-> << name >>])

FolderHas_Never(folderId, name) == FALSE

\* importedFilesByStudent.get(studentEmail).push(fileNameRelative), the map
\* kept in insertion order
AddToBatch(batches, email, name) ==
  IF \E i \in 1..Len(batches) : batches[i].email = email
  THEN [i \in 1..Len(batches) |->
          IF batches[i].email = email
          THEN [batches[i] EXCEPT !.files = Append(@, name)]
          ELSE batches[i]]
  ELSE Append(batches, [email |-> email, files |-> << name >>])

\* targetFolder.getFilesByName(fileNameRelative).hasNext()
FolderHas(folderId, name) == name \in folders[folderId]

\* the day of the run, as Utilities.formatDate(new Date(), tz, 'yyyyMMdd')
Today == << "2", "0", "2", "4", "0", "3", "1", "0" >>

\* a variant of the definition below, used to test the properties: the
\* fallback `X` in place of the roster row
HwId_NoRow(r) == << "L", "X", "-" >> \o Today

\* `L${student.RosterRowIndex}-${today}` (the sheet row: header included)
HwId(r) == << "L", DigitSeq[r + 1], "-" >> \o Today

\* a variant of the definition below, used to test the properties: the
\* status and the completion date change places
newRowData_Swapped(r, hwId, promptFileId, token) ==
  << Roster[r].studentId, Roster[r].name, Roster[r].email, hwId, promptFileId, token,
     "2024-03-10T09:00:00.000Z", "Active", "", 0 >>

\* newRowData of saveHomeworkPrompt for the student of roster row r: the ten
\* cells in the order of the headers of the homework ledger
newRowData(r, hwId, promptFileId, token) ==
  << Roster[r].studentId, Roster[r].name, Roster[r].email, hwId, promptFileId, token,
     "2024-03-10T09:00:00.000Z", "", "Active", 0 >>

\* a variant of the definition below, used to test the properties: the
\* name is always the fallback of part_000
PromptFileName_Fallback(first, r) ==
  << "H", "W", "_" >> \o HwId(r) \o << "_", "p", "r", "o", "m", "p", "t" >> \o ExtTxt

\* the name of the prompt file, from the first transcript of the batch and
\* the student of roster row r. It is parsed with
\* /_(\d{4}-\d{2}-\d{2})_([A-Za-z0-9_-]{10})\.txt$/i; part_000 names the file
\* prompt_<date>_<fragment>.txt, or HW_<hwId>_prompt.txt when the parse
\* fails; Code.js puts the student's name before the date and falls back to
\* prompt_<first transcript>
PromptFileName(first, r) ==
  LET n == Len(first)
      parsed == /\ n >= 26
                /\ EndsWithNoCase(first, ExtTxt)
                /\ IsFragAt(first, n - 13)
                /\ first[n - 14] = "_"
                /\ IsDateAt(first, n - 24)
                /\ first[n - 25] = "_"
      prompt == << "p", "r", "o", "m", "p", "t", "_" >>
  IN  IF variant = "V8"
      THEN IF parsed
           THEN prompt \o SubSeq(first, n - 24, n - 15)
                  \o << "_" >> \o SubSeq(first, n - 13, n - 4) \o ExtTxt
           ELSE << "H", "W", "_" >> \o HwId(r) \o << "_" >> \o SubSeq(prompt, 1, 6) \o ExtTxt
      ELSE IF parsed
           THEN prompt \o CollapseWhite(Roster[r].name, "_") \o << "_" >>
                  \o SubSeq(first, n - 24, n - 15)
                  \o << "_" >> \o SubSeq(first, n - 13, n - 4) \o ExtTxt
           ELSE prompt \o first

ImpIdle == [pc |-> "idle", list |-> << >>, k |-> 0, a |-> 0,
            importCount |-> 0, errorCount |-> 0, skippedExistsCount |-> 0,
            skippedNoMatchCount |-> 0, skippedAsteriskCount |-> 0,
            assignmentErrors |-> 0, batches |-> << >>, calls |-> << >>,
            copyLog |-> << >>, failed |-> {}, folders0 |-> [f \in FolderIds |-> {}],
            ledger0 |-> 0, mails0 |-> 0]

\* the run starts: the roster map is built and transcripts/ is listed (the
\* listing is not empty)
I_Begin ==
  /\ imp.pc \in {"idle", "finished"}
  /\ nImports < MaxRuns
  /\ gcs.transcripts # {}
  /\ nImports' = nImports + 1
  /\ imp' = [ImpIdle EXCEPT !.pc = "run", !.list = Listing(gcs.transcripts), !.k = 1,
                            !.a = 1, !.folders0 = folders, !.ledger0 = Len(hwLedger),
                            !.mails0 = Len(mails)]
  /\ UNCHANGED << unassigned, jobs, nFaults, discOnly, monVars, folders, prompts, hwLedger, mails,
                  config >>

\* the transcript in hand
Item == imp.list[imp.k]

Scanning == imp.pc = "run" /\ imp.k <= Len(imp.list)

\* an unrecognized name, an asterisk in the name part, or no roster match
I_Skip ==
  /\ Scanning
  /\ Classify(Item) # "match"
  /\ imp' = [imp EXCEPT !.k = @ + 1,
               !.skippedAsteriskCount = IF Classify(Item) = "asterisk" THEN @ + 1 ELSE @,
               !.skippedNoMatchCount = IF Classify(Item) = "nomatch" THEN @ + 1 ELSE @]
  /\ UNCHANGED << unassigned, jobs, nFaults, discOnly, monVars, folders, prompts, hwLedger, mails,
                  config, nImports >>

\* a variant of the catch block below, used to test the properties: the
\* error ends the scan
CatchItemError_EndsScan(run) ==
  [run EXCEPT !.k = Len(run.list) + 1, !.errorCount = @ + 1,
              !.failed = @ \cup {run.list[run.k]}]

\* catch (error) of the loop body: errorCount++, and forEach goes on with
\* the next transcript
CatchItemError(run) ==
  [run EXCEPT !.k = @ + 1, !.errorCount = @ + 1, !.failed = @ \cup {run.list[run.k]}]

\* the content cannot be fetched, or the folder cannot be opened (not found,
\* no permission): the loop body throws
I_FetchFail ==
  /\ Scanning
  /\ Classify(Item) = "match"
  /\ nFaults < MaxFaults
  /\ nFaults' = nFaults + 1
  /\ imp' = CatchItemError(imp)
  /\ UNCHANGED << unassigned, jobs, discOnly, monVars, folders, prompts, hwLedger, mails, config,
                  nImports >>

\* a file of that name is in the student's folder: skippedExistsCount++
I_Exists ==
  /\ Scanning
  /\ Classify(Item) = "match"
  /\ FolderHas(OwnerOf(Item).folderId, Item)
  /\ imp' = [imp EXCEPT !.k = @ + 1, !.skippedExistsCount = @ + 1]
  /\ UNCHANGED << unassigned, jobs, nFaults, discOnly, monVars, folders, prompts, hwLedger, mails,
                  config, nImports >>

\* the transcript is copied into the student's folder and queued for the
\* student's homework
I_Copy ==
  /\ Scanning
  /\ Classify(Item) = "match"
  /\ ~FolderHas(OwnerOf(Item).folderId, Item)
  /\ folders' = [folders EXCEPT ![OwnerOf(Item).folderId] = @ \cup {Item}]
  /\ imp' = [imp EXCEPT !.k = @ + 1, !.importCount = @ + 1,
               !.batches = AddToBatch(@, OwnerOf(Item).email, Item),
               !.copyLog = Append(@, [email |-> OwnerOf(Item).email, name |-> Item])]
  /\ UNCHANGED << unassigned, jobs, nFaults, discOnly, monVars, prompts, hwLedger, mails, config,
                  nImports >>

\* the batch assignHomework is called with next
Batch == imp.batches[imp.a]

Assigning == imp.pc = "run" /\ imp.k > Len(imp.list) /\ imp.a <= Len(imp.batches)

\* assignHomework succeeds: the prompt file is created, the ledger row is
\* appended, and the notification is sent, fails to be sent, or is skipped
\* because HOMEWORK_PORTAL_BASEURL is not set
I_AssignOk ==
  /\ Assigning
  /\ rosterFindByEmail(Batch.email) # 0
  /\ config.hwSheet
  /\ \E mail \in IF config.portal THEN {"sent", "failed"} ELSE {"skipped"} :
       /\ mails' = IF mail = "sent"
                   THEN Append(mails, [to |-> Batch.email, token |-> Len(prompts) + 1])
                   ELSE mails
       /\ imp' = [imp EXCEPT !.a = @ + 1,
                    !.calls = Append(@, [email |-> Batch.email, files |-> Batch.files,
                                         result |-> "ok", mail |-> mail,
                                         prompt |-> Len(prompts) + 1])]
  /\ prompts' = Append(prompts,
        [folderId |-> Roster[rosterFindByEmail(Batch.email)].folderId,
         name |-> PromptFileName(Batch.files[1], rosterFindByEmail(Batch.email)),
         files |-> Batch.files, trashed |-> FALSE, cleanup |-> "none"])
  /\ hwLedger' = Append(hwLedger,
        [email |-> Batch.email, hwId |-> HwId(rosterFindByEmail(Batch.email)),
         promptFile |-> Len(prompts) + 1, token |-> Len(prompts) + 1,
         tokenStatus |-> "Active", turnsUsed |-> 0,
         cells |-> newRowData(rosterFindByEmail(Batch.email),
                              HwId(rosterFindByEmail(Batch.email)),
                              Len(prompts) + 1, Len(prompts) + 1)])
  /\ UNCHANGED << unassigned, jobs, nFaults, discOnly, monVars, folders, config, nImports >>

\* a variant of the catch block below, used to test the properties: the
\* prompt file is left where it is
TrashedOnLedgerError_Never(trashOk) == FALSE

\* saveHomeworkPrompt, catch (e) of the ledger append: promptFile.setTrashed(true),
\* whose own failure is logged and swallowed; is the prompt file trashed?
TrashedOnLedgerError(trashOk) == trashOk

\* assignHomework throws: the roster cannot be read (or ROSTER_DRIVE_FOLDER_ID
\* is not set), the prompt file cannot be created, or the ledger row cannot
\* be appended (HOMEWORK_SHEET_NAME is not set, or the append fails; the
\* prompt file is then trashed, unless that fails too); assignmentErrors++
I_AssignFail ==
  /\ Assigning
  /\ \E stage \in IF rosterFindByEmail(Batch.email) = 0
                  THEN {"lookup"} ELSE {"lookup", "prompt", "ledger"} :
     \E trashOk \in IF stage = "ledger" /\ nFaults < MaxFaults THEN BOOLEAN ELSE {TRUE} :
       /\ prompts' = IF stage = "ledger"
                     THEN Append(prompts,
                            [folderId |-> Roster[rosterFindByEmail(Batch.email)].folderId,
                             name |-> PromptFileName(Batch.files[1],
                                                     rosterFindByEmail(Batch.email)),
                             files |-> Batch.files,
                             trashed |-> TrashedOnLedgerError(trashOk),
                             cleanup |-> IF trashOk THEN "ok" ELSE "failed"])
                     ELSE prompts
       /\ nFaults' = IF trashOk THEN nFaults ELSE nFaults + 1
       /\ imp' = [imp EXCEPT !.a = @ + 1, !.assignmentErrors = @ + 1,
                    !.calls = Append(@, [email |-> Batch.email, files |-> Batch.files,
                                         result |-> stage, mail |-> "none",
                                         prompt |-> IF stage = "ledger"
                                                    THEN Len(prompts) + 1 ELSE 0])]
  /\ UNCHANGED << unassigned, jobs, discOnly, monVars, folders, hwLedger, mails, config,
                  nImports >>

\* every batch has been assigned: the run ends
I_End ==
  /\ imp.pc = "run"
  /\ imp.k > Len(imp.list)
  /\ imp.a > Len(imp.batches)
  /\ imp' = [imp EXCEPT !.pc = "finished"]
  /\ UNCHANGED << unassigned, jobs, nFaults, discOnly, monVars, folders, prompts, hwLedger, mails,
                  config, nImports >>

\* the run is interrupted: its locals are lost
I_Crash ==
  /\ imp.pc = "run"
  /\ nFaults < MaxFaults
  /\ nFaults' = nFaults + 1
  /\ imp' = ImpIdle
  /\ unassigned' = unassigned \cup
        UNION {{imp.batches[b].files[i] : i \in 1..Len(imp.batches[b].files)} :
                 b \in imp.a..Len(imp.batches)}
  /\ UNCHANGED << jobs, discOnly, monVars, folders, prompts, hwLedger, mails, config,
                  nImports >>

(***************************************************************************)
(* processCompletedTranscripts (Code.js).                                  *)
(***************************************************************************)
\* processedTranscripts: for each row of the homework ledger, the name of its
\* prompt file without a leading "prompt_"
processedTranscripts ==
  {LET name == prompts[hwLedger[i].promptFile].name
   IN  IF Len(name) >= 7 /\ SubSeq(name, 1, 7) = << "p", "r", "o", "m", "p", "t", "_" >>
       THEN SubSeq(name, 8, Len(name)) ELSE name :
     i \in 1..Len(hwLedger)}

\* the text files of the folder of roster row r that are not in
\* processedTranscripts and do not start with "prompt_"
NewTranscripts(r) ==
  {n \in folders[Roster[r].folderId] :
     /\ n \notin processedTranscripts
     /\ ~(Len(n) >= 7 /\ SubSeq(n, 1, 7) = << "p", "r", "o", "m", "p", "t", "_" >>)}

\* the run starts: the ledger and the folders are read, and the new
\* transcripts of each student are put in a batch, in the order of the
\* roster; within a folder the files come in the order Drive yields them
P_Begin ==
  /\ variant = "V9"
  /\ imp.pc \in {"idle", "finished"}
  /\ nImports < MaxRuns
  /\ nImports' = nImports + 1
  /\ LET Orders(S) == {q \in [1..Cardinality(S) -> S] :
                         {q[i] : i \in 1..Cardinality(S)} = S}
     IN
     \E order \in [1..Len(Roster) ->
                     UNION {Orders(NewTranscripts(r)) : r \in 1..Len(Roster)}] :
       /\ \A r \in 1..Len(Roster) : order[r] \in Orders(NewTranscripts(r))
       /\ imp' = [ImpIdle EXCEPT !.pc = "run", !.k = 1, !.a = 1,
                    !.batches =
                       LET all == [r \in 1..Len(Roster) |->
                                     [email |-> Roster[r].email, files |-> order[r]]]
                           Some(b) == b.files # << >>
                       IN  SelectSeq(all, Some),
                    !.folders0 = folders, !.ledger0 = Len(hwLedger),
                    !.mails0 = Len(mails)]
  /\ UNCHANGED << unassigned, jobs, nFaults, discOnly, monVars, folders, prompts, hwLedger, mails,
                  config >>

(***************************************************************************)
(* Initial states and specifications.                                      *)
(***************************************************************************)
\* no import has run; folders, ledger and outbox are empty
ImportAtRest ==
  /\ imp = ImpIdle
  /\ folders = [f \in FolderIds |-> {}]
  /\ prompts = << >>
  /\ hwLedger = << >>
  /\ mails = << >>
  /\ config \in {[portal |-> TRUE, hwSheet |-> TRUE, driveCol |-> TRUE]}
  /\ nImports = 0
  /\ unassigned = {}

\* no poll pass has run
MonitorAtRest ==
  /\ m = [p \in Pollers |-> MIdle]
  /\ handled = [r \in RowIds |-> 0]
  /\ moved = [r \in RowIds |-> 0]
  /\ uploads = [r \in RowIds |-> 0]
  /\ passNo = 0
  /\ completedIn = [r \in RowIds |-> 0]
  /\ interrupted = {}
  /\ lastPass = NoPass
  /\ answers = [r \in RowIds |-> << >>]

InitDiscovery ==
  /\ variant \in {"V8", "V9"}
  /\ driveFiles \in Folders
  /\ origFiles = driveFiles
  /\ hdr \in {"none", "wrong"}
  /\ jobs = << >>
  /\ pending = [p \in Procs |-> << >>]
  /\ d = DIdle
  /\ sent = [f \in FileIds |-> 0]
  /\ sendLog = [f \in FileIds |-> << >>]
  /\ dlog = << >>
  /\ nRuns = 0
  /\ lastRun = NoRun
  /\ prevClean = FALSE
  /\ orphaned = {}
  /\ nFaults = 0
  /\ MonitorAtRest
  /\ gcs = [incoming |-> {}, processed |-> {}, transcripts |-> {}]
  /\ ImportAtRest

NextDiscovery ==
  \/ D_Start
  \/ D_SkipFile
  \/ D_TakeFile
  \/ D_RenameOk
  \/ D_RenameFail
  \/ D_Append
  \/ D_Flush1
  \/ D_SendJobId
  \/ D_SendNull
  \/ D_SendThrowsEarly
  \/ D_SendAccepted
  \/ D_SendThrows
  \/ D_FinalWrite
  \/ D_Flush2
  \/ D_Finish
  \/ D_Crash

SpecDiscovery == InitDiscovery /\ [][NextDiscovery]_vars

\* processNewRecordings on a folder with one recording, whose raw name is a
\* name part (plain, with an asterisk, or with an apostrophe in front of a
\* date of its own), a separator, the class date, and what Meet appends
InitRenamer ==
  /\ variant \in {"V8", "V9"}
  /\ driveFiles \in
       {[f \in FileIds |-> IF f = 1 THEN [name |-> n \o s \o Date1 \o t, mime |-> "video/mp4"]
                            ELSE RawFiles[3]] :
          n \in {<< "A", "l", " ", "B" >>, << "B", "o", "*" >>,
                 << "A", "l", " ", "'" >> \o Date2},
          s \in {<< " ", "-", " " >>, << "_" >>, << " " >>},
          t \in {<< " ", "G", "M", "T" >> \o ExtMp4, ExtMp4}}
  /\ origFiles = driveFiles
  /\ hdr = "none"
  /\ jobs = << >>
  /\ pending = [p \in Procs |-> << >>]
  /\ d = DIdle
  /\ sent = [f \in FileIds |-> 0]
  /\ sendLog = [f \in FileIds |-> << >>]
  /\ dlog = << >>
  /\ nRuns = 0
  /\ lastRun = NoRun
  /\ prevClean = FALSE
  /\ orphaned = {}
  /\ nFaults = 0
  /\ MonitorAtRest
  /\ gcs = [incoming |-> {}, processed |-> {}, transcripts |-> {}]
  /\ ImportAtRest

SpecRenamer == InitRenamer /\ [][NextDiscovery]_vars

\* the folder after discovery has renamed and recorded every recording
RenamedFolder == [f \in FileIds |-> [name |-> RowName(f), mime |-> "video/mp4"]]

\* processNewRecordings is at rest after its runs
DiscoveryAtRest ==
  /\ variant = "V8"
  /\ driveFiles = RenamedFolder
  /\ origFiles = RenamedFolder
  /\ hdr = "ok"
  /\ pending = [p \in Procs |-> << >>]
  /\ d = DIdle
  /\ sent = [f \in FileIds |-> 0]
  /\ sendLog = [f \in FileIds |-> << >>]
  /\ dlog = << >>
  /\ nRuns = 0
  /\ lastRun = NoRun
  /\ prevClean = FALSE
  /\ orphaned = {}
  /\ nFaults = 0

\* the sheet as discovery leaves it; Cloud Run has stored under incoming/ the
\* recordings it returned a job id for
InitMonitor ==
  /\ DiscoveryAtRest
  /\ jobs \in {rows \in [RowIds -> UNION {RowShapes(f) : f \in RowIds}] :
                 \A f \in RowIds : rows[f] \in RowShapes(f)}
  /\ MonitorAtRest
  /\ gcs = [incoming |-> {jobs[r].fileName : r \in {q \in RowIds : jobs[q].jobId # ""}},
            processed |-> {}, transcripts |-> {}]
  /\ ImportAtRest

\* one trigger: a pass starts when the one before has ended
NextMonitor ==
  \/ M_Begin("mon1")
  \/ M_SkipRow("mon1")
  \/ M_MissingJobId("mon1")
  \/ M_PollDone("mon1")
  \/ M_PollOther("mon1")
  \/ M_FetchTranscript("mon1")
  \/ M_Upload("mon1")
  \/ M_MoveCheck("mon1")
  \/ M_MoveCopy("mon1")
  \/ M_MoveDelete("mon1")
  \/ M_Final("mon1")
  \/ M_End("mon1")
  \/ M_Crash("mon1")

SpecMonitor == InitMonitor /\ [][NextMonitor]_vars

\* the two triggers of part_000 on one sheet: the runs of discovery, then the
\* passes of the poller (discovery leaves no polled status without a job id,
\* so error_missing_jobid is never written here; the interruptions are those
\* of discovery)
NextPipeline ==
  \/ passNo = 0 /\ D_Start
  \/ D_SkipFile
  \/ D_TakeFile
  \/ D_RenameOk
  \/ D_RenameFail
  \/ D_Append
  \/ D_Flush1
  \/ D_SendJobId
  \/ D_SendNull
  \/ D_SendThrowsEarly
  \/ D_FinalWrite
  \/ D_Flush2
  \/ D_Finish
  \/ D_Crash
  \/ d.pc = "idle" /\ M_Begin("mon1")
  \/ d.pc = "idle" /\ M_SkipRow("mon1")
  \/ d.pc = "idle" /\ M_PollDone("mon1")
  \/ d.pc = "idle" /\ M_PollOther("mon1")
  \/ d.pc = "idle" /\ M_FetchTranscript("mon1")
  \/ d.pc = "idle" /\ M_Upload("mon1")
  \/ d.pc = "idle" /\ M_MoveCheck("mon1")
  \/ d.pc = "idle" /\ M_MoveCopy("mon1")
  \/ d.pc = "idle" /\ M_MoveDelete("mon1")
  \/ d.pc = "idle" /\ M_Final("mon1")
  \/ d.pc = "idle" /\ M_End("mon1")

\* part_000: the rows the poller meets are the rows discovery has written
InitPipeline == InitDiscovery /\ variant = "V8"

SpecPipeline == InitPipeline /\ [][NextPipeline]_vars

\* the steps of a run of discovery and of a pass of the poller, but for the
\* loop head of discovery and for the interruption
PipelineStep ==
  \/ passNo = 0 /\ D_Start
  \/ D_RenameOk \/ D_RenameFail \/ D_Append \/ D_Flush1
  \/ D_SendJobId \/ D_SendNull \/ D_SendThrowsEarly
  \/ D_FinalWrite \/ D_Flush2 \/ D_Finish
  \/ /\ d.pc = "idle"
     /\ \/ M_Begin("mon1") \/ M_SkipRow("mon1")
        \/ M_PollDone("mon1") \/ M_PollOther("mon1")
        \/ M_FetchTranscript("mon1") \/ M_Upload("mon1")
        \/ M_MoveCheck("mon1") \/ M_MoveCopy("mon1") \/ M_MoveDelete("mon1")
        \/ M_Final("mon1") \/ M_End("mon1")

\* the time-driven triggers keep firing and a started run or pass goes on to
\* its next step unless it is interrupted: weak fairness of the steps. For
\* the loop head of discovery (files.next() yields a file, which the loop
\* body skips or takes) the fairness is written out with its enabling
\* condition: a file is left to visit
FairPipeline ==
  /\ WF_vars(PipelineStep)
  /\ \/ []<>(~(d.pc = "loop" /\ d.todo # {}))
     \/ []<><<D_SkipFile \/ D_TakeFile>>_vars

\* a folder with one recording and one file the loop skips, a new sheet
InitLive ==
  /\ InitPipeline
  /\ hdr = "none"
  /\ driveFiles = [f \in FileIds |-> IF f = 1 THEN RawFiles[1] ELSE RawFiles[3]]

SpecLive == InitLive /\ [][NextPipeline]_vars /\ FairPipeline

\* two triggers whose passes may overlap (no pass is interrupted)
NextOverlap ==
  \E p \in Pollers :
    \/ M_Begin(p)
    \/ M_SkipRow(p)
    \/ M_MissingJobId(p)
    \/ M_PollDone(p)
    \/ M_PollOther(p)
    \/ M_FetchTranscript(p)
    \/ M_Upload(p)
    \/ M_MoveCheck(p)
    \/ M_MoveCopy(p)
    \/ M_MoveDelete(p)
    \/ M_Final(p)
    \/ M_End(p)

\* the first row is a submitted job; the other rows have no job to poll
InitOverlap ==
  /\ InitMonitor
  /\ jobs[1].jobId # ""
  /\ \A r \in RowIds \ {1} : jobs[r].jobId = ""

SpecOverlap == InitOverlap /\ [][NextOverlap]_vars

\* the transcripts the poll passes have left under transcripts/; at most one
\* of HOMEWORK_PORTAL_BASEURL, HOMEWORK_SHEET_NAME and ROSTER_DRIVE_FOLDER_ID
\* is not set
InitImport ==
  /\ DiscoveryAtRest
  /\ jobs = << >>
  /\ MonitorAtRest
  /\ gcs \in {[incoming |-> {}, processed |-> {}, transcripts |-> T] :
                T \in {S \in SUBSET {TranscriptPool[i] : i \in 1..Len(TranscriptPool)} :
                         Cardinality(S) \in 1..MaxTranscripts}}
  /\ imp = ImpIdle
  /\ folders = [f \in FolderIds |-> {}]
  /\ prompts = << >>
  /\ hwLedger = << >>
  /\ mails = << >>
  /\ config \in {c \in [portal : BOOLEAN, hwSheet : BOOLEAN, driveCol : BOOLEAN] :
                    Cardinality({k \in DOMAIN c : ~c[k]}) <= 1}
  /\ nImports = 0
  /\ unassigned = {}

NextImport ==
  \/ I_Begin
  \/ I_Skip
  \/ I_FetchFail
  \/ I_Exists
  \/ I_Copy
  \/ I_AssignOk
  \/ I_AssignFail
  \/ I_End
  \/ I_Crash

SpecImport == InitImport /\ [][NextImport]_vars

\* Code.js: the transcripts are in the students' folders, no homework has
\* been assigned
InitCompleted ==
  /\ variant = "V9"
  /\ driveFiles = RenamedFolder
  /\ origFiles = RenamedFolder
  /\ hdr = "ok"
  /\ pending = [p \in Procs |-> << >>]
  /\ d = DIdle
  /\ sent = [f \in FileIds |-> 0]
  /\ sendLog = [f \in FileIds |-> << >>]
  /\ dlog = << >>
  /\ nRuns = 0
  /\ lastRun = NoRun
  /\ prevClean = FALSE
  /\ orphaned = {}
  /\ nFaults = 0
  /\ jobs = << >>
  /\ MonitorAtRest
  /\ gcs = [incoming |-> {}, processed |-> {}, transcripts |-> {}]
  /\ imp = ImpIdle
  /\ folders \in {[f \in FolderIds |->
                     IF f = Roster[1].folderId THEN a
                     ELSE IF f = Roster[2].folderId THEN b ELSE c] :
                    a \in SUBSET {TranscriptPool[1], TranscriptPool[2]},
                    b \in SUBSET {TranscriptPool[4]},
                    c \in SUBSET {TranscriptPool[5], TranscriptPool[6]}}
  /\ prompts = << >>
  /\ hwLedger = << >>
  /\ mails = << >>
  /\ config = [portal |-> TRUE, hwSheet |-> TRUE, driveCol |-> TRUE]
  /\ nImports = 0
  /\ unassigned = {}

\* the homework is assigned by importTranscriptsToDrive (part_000) or by
\* processCompletedTranscripts (Code.js)
InitHomework == InitImport \/ InitCompleted

NextHomework ==
  \/ I_Begin
  \/ I_Skip
  \/ I_FetchFail
  \/ I_Exists
  \/ I_Copy
  \/ P_Begin
  \/ I_AssignOk
  \/ I_AssignFail
  \/ I_End
  \/ I_Crash

SpecHomework == InitHomework /\ [][NextHomework]_vars

(***************************************************************************)
(* Properties of processNewRecordings.                                     *)
(***************************************************************************)
\* the loop body accepts the file as a recording: a video whose name parses
IsRecording(f) ==
  /\ IsVideo(origFiles[f].mime)
  /\ extractStudentInfoFromFilename(origFiles[f].name).ok

\* the row of the sheet the final write of the file in hand is aimed at
TargetRow == d.cur.addedRowIndex - 1

\* the order of the ledger and submission events of one file
StepOrder == << "append", "flush", "send", "write", "flush" >>

\* two runs in succession have ended normally, no rename failing in the first
TwoRunsInSuccession == d.pc = "idle" /\ lastRun.done /\ prevClean

\* C1: when two runs of processNewRecordings follow one another on the same
\* folder, both ending normally, the second run adds no row to the sheet and
\* makes no submission call, and the sheet then holds exactly one row for
\* each recording of the folder (each video file whose name parses) and no
\* other row.
C1_SecondRunAddsNothing ==
  TwoRunsInSuccession =>
    /\ lastRun.appended = 0
    /\ lastRun.calls = 0
    /\ \A f \in FileIds :
         Cardinality(RowsOf(jobs, f)) = IF IsRecording(f) THEN 1 ELSE 0
    /\ Len(jobs) = Cardinality({f \in FileIds : IsRecording(f)})

\* two runs in succession ended normally on a folder of two recordings
C1_Witness ==
  /\ TwoRunsInSuccession
  /\ nRuns = 2
  /\ \A f \in FileIds : IsRecording(f) /\ sent[f] = 1

\* C2: over any sequence of runs of processNewRecordings, interrupted at any
\* step or not, sendFileInfoToCloudRun is called at most once for each file.
C2_AtMostOneSubmission == \A f \in FileIds : sent[f] <= 1

\* a file was submitted in a run that was interrupted before the final write
\* (its row still has the placeholder status), and a later run has gone
\* through the folder and ended normally
C2_Witness ==
  /\ d.pc = "idle"
  /\ lastRun.done
  /\ nRuns = 2
  /\ \E f \in FileIds :
       /\ sent[f] = 1
       /\ \E i \in RowsOf(jobs, f) : jobs[i].status = PlaceholderStatus

\* C8: for the file in hand the events happen in the order append, flush,
\* submission, final write, flush; when the submission is about to be made
\* the placeholder row (empty job id) of the file is stored in the sheet and
\* nothing is left unwritten; and the final write is aimed at the row that
\* carries the name of that file.
C8_SideEffectOrder ==
  /\ Len(dlog) <= Len(StepOrder)
  /\ dlog = SubSeq(StepOrder, 1, Len(dlog))
  /\ d.pc = "send" =>
       /\ pending["disc"] = << >>
       /\ TargetRow \in 1..Len(jobs)
       /\ jobs[TargetRow] = [fileName |-> d.cur.newFileName, jobId |-> "",
                             status |-> PlaceholderStatus]
  /\ d.pc \in {"final", "flush2"} =>
       /\ TargetRow \in 1..Len(jobs)
       /\ jobs[TargetRow].fileName = d.cur.newFileName
       /\ RowsOf(jobs, d.cur.file) = {TargetRow}
       /\ \A i \in 1..Len(pending["disc"]) : pending["disc"][i].idx = TargetRow

\* the final write of the second file of a run is buffered, aimed at row 2
C8_Witness ==
  /\ d.pc = "flush2"
  /\ TargetRow = 2
  /\ pending["disc"] # << >>
  /\ dlog = SubSeq(StepOrder, 1, 4)

\* C9: a file that a run renamed before being interrupted is not lost: once
\* a later run has ended normally (no rename failing in it), every renamed
\* file has a row under its name in the sheet.
C9_RenamedFileGetsRow ==
  (d.pc = "idle" /\ Clean(lastRun)) =>
     \A f \in FileIds : Renamed(f) => RowsOf(jobs, f) # {}

\* an interruption left a renamed file without a row, and the next run ended
\* normally
C9_Witness ==
  /\ d.pc = "idle"
  /\ Clean(lastRun)
  /\ orphaned # {}

(***************************************************************************)
(* Properties of monitorTranscriptionJobs.                                 *)
(***************************************************************************)
\* the rows a pass has called the provider or the bucket for, or written
Touched(pass) == pass.polled \cup pass.began \cup pass.wrote

\* the statuses completion handling ends in
CompletionStatuses ==
  {"done", "transcript_fetch_error", "gcs_error", "gcs_move_error", "processing_error"}

\* C3: with one trigger (passes in sequence), once a pass has taken a row
\* through completion handling to its final status, no later pass polls the
\* provider, calls the bucket or writes for that row; unless an interruption
\* cut the handling short, handleCompletedJob, the upload and moveFileInGCS
\* happen at most once for the row, and exactly once each when the row
\* ended in done.
C3_CompletionOnce ==
  \A r \in RowIds :
    /\ (m["mon1"].pc # "idle" /\ completedIn[r] # 0 /\ completedIn[r] < m["mon1"].no)
         => r \notin Touched(m["mon1"])
    /\ r \notin interrupted => (handled[r] <= 1 /\ uploads[r] <= 1 /\ moved[r] <= 1)
    /\ (r \notin interrupted /\ completedIn[r] # 0 /\ jobs[r].status = "done")
         => (handled[r] = 1 /\ uploads[r] = 1 /\ moved[r] = 1)

\* a row was completed (transcript uploaded, recording relocated) in the
\* first pass, and a second pass has gone through the sheet
C3_Witness ==
  /\ m["mon1"].pc = "row"
  /\ m["mon1"].no = 2
  /\ m["mon1"].i > Len(m["mon1"].data)
  /\ nFaults = 0
  /\ \E r \in RowIds :
       /\ completedIn[r] = 1
       /\ jobs[r].status = "done"
       /\ TranscriptName(jobs[r].fileName) \in gcs.transcripts
       /\ jobs[r].fileName \in gcs.processed \ gcs.incoming

\* C6 (as claimed): under every interleaving of two poll passes,
\* handleCompletedJob and moveFileInGCS are each started at most once for a row.
C6_AtMostOneTrigger == \A r \in RowIds : handled[r] <= 1 /\ moved[r] <= 1

\* C7: a row whose status is terminal when a pass starts is left alone by
\* that pass: no provider call, no bucket call, no write, and its cells stay
\* as they were.
C7_TerminalAbsorbing ==
  \A r \in m["mon1"].term0 :
    /\ r \notin Touched(m["mon1"])
    /\ jobs[r] = m["mon1"].data[r]

\* a second pass has gone through a sheet in which the first pass made a row
\* terminal, and polled another row
C7_Witness ==
  /\ m["mon1"].pc = "row"
  /\ m["mon1"].no = 2
  /\ m["mon1"].i > Len(m["mon1"].data)
  /\ \E r \in m["mon1"].term0 : completedIn[r] = 1
  /\ m["mon1"].polled # {}

\* C10: a row that an interrupted pass left at processing_transcript with a
\* job id is polled by the next pass; if the provider then reports done, the
\* completion handling is run again and, the pass ending normally, the row
\* is at done or at a terminal error status.
C10_MarkedRowResumed ==
  (m["mon1"].pc = "idle" /\ lastPass.done) =>
     \A r \in lastPass.marked0 :
       /\ r \in lastPass.polled
       /\ r \in lastPass.doneSeen =>
            /\ r \in lastPass.began
            /\ jobs[r].status \in CompletionStatuses
            /\ jobs[r].status \in terminalStatuses

\* handling of a row was interrupted, and the next pass ran it again to done
C10_Witness ==
  /\ m["mon1"].pc = "idle"
  /\ lastPass.done
  /\ \E r \in lastPass.marked0 \cap lastPass.doneSeen :
       /\ r \in interrupted
       /\ handled[r] = 2
       /\ jobs[r].status = "done"

(***************************************************************************)
(* Properties of importTranscriptsToDrive.                                 *)
(***************************************************************************)
\* the names copied in the run for the student with that address, in copy order
CopiedFor(email) ==
  LET Mine(c) == c.email = email
      log == SelectSeq(imp.copyLog, Mine)
  IN  [i \in 1..Len(log) |-> log[i].name]

\* the calls of assignHomework the run made with that address
CallsFor(email) ==
  LET Mine(c) == c.email = email IN SelectSeq(imp.calls, Mine)

\* the ledger rows and the notifications the run added for that address
RowsAddedFor(email) ==
  {i \in (imp.ledger0 + 1)..Len(hwLedger) : hwLedger[i].email = email}

MailsAddedFor(email) ==
  {i \in (imp.mails0 + 1)..Len(mails) : mails[i].to = email}

\* C4: in a run of importTranscriptsToDrive that ends normally, assignHomework
\* is called exactly once for each student with a transcript newly copied in
\* the run, with all the names copied for that student in copy order, and
\* not at all for any other student; the run adds for the student one
\* ledger row, whose prompt lists exactly those names, when the call
\* succeeds (none otherwise), and one notification when it is sent.
C4_OneAssignmentPerStudent ==
  imp.pc = "finished" =>
    /\ \A e \in Emails :
         /\ IF CopiedFor(e) = << >> THEN CallsFor(e) = << >>
            ELSE /\ Len(CallsFor(e)) = 1
                 /\ CallsFor(e)[1].files = CopiedFor(e)
         /\ Cardinality(RowsAddedFor(e)) =
              IF CallsFor(e) # << >> /\ CallsFor(e)[1].result = "ok" THEN 1 ELSE 0
         /\ \A i \in RowsAddedFor(e) :
              /\ prompts[hwLedger[i].promptFile].files = CopiedFor(e)
              /\ ~prompts[hwLedger[i].promptFile].trashed
         /\ Cardinality(MailsAddedFor(e)) =
              IF CallsFor(e) # << >> /\ CallsFor(e)[1].mail = "sent" THEN 1 ELSE 0
    /\ \A i \in 1..Len(imp.calls) : imp.calls[i].email \in Emails
    /\ Len(hwLedger) - imp.ledger0 <= Cardinality(Emails)

\* three transcripts were copied for one student and none for the other:
\* one call, one ledger row and one notification, for the first student
C4_Witness ==
  /\ imp.pc = "finished"
  /\ Len(CopiedFor("al@x")) = 3
  /\ CopiedFor("bo@x") = << >>
  /\ Len(imp.calls) = 1
  /\ Len(imp.calls[1].files) = 3
  /\ Cardinality(RowsAddedFor("al@x")) = 1
  /\ Cardinality(MailsAddedFor("al@x")) = 1
  /\ RowsAddedFor("bo@x") = {}

\* the matching transcripts that were in their student's folder when the
\* run started
ExistedAtStart ==
  {n \in gcs.transcripts :
     Classify(n) = "match" /\ n \in imp.folders0[OwnerOf(n).folderId]}

\* C5: a run of importTranscriptsToDrive that finds a matching transcript
\* already in its student's folder under the same name creates no file for
\* it and passes it to no assignHomework call, so that no ledger row and no
\* notification is made for it; skippedExistsCount is incremented once for
\* each such transcript whose content and folder could be read.
C5_ExistingTranscriptSkipped ==
  imp.pc = "finished" =>
    /\ \A n \in ExistedAtStart :
         /\ \A i \in 1..Len(imp.copyLog) : imp.copyLog[i].name # n
         /\ \A i \in 1..Len(imp.calls) :
              \A j \in 1..Len(imp.calls[i].files) : imp.calls[i].files[j] # n
         /\ \A i \in (imp.ledger0 + 1)..Len(hwLedger) :
              \A j \in 1..Len(prompts[hwLedger[i].promptFile].files) :
                 prompts[hwLedger[i].promptFile].files[j] # n
    /\ imp.skippedExistsCount = Cardinality(ExistedAtStart \ imp.failed)
    /\ (ExistedAtStart = {n \in gcs.transcripts : Classify(n) = "match"})
         => (Len(hwLedger) = imp.ledger0 /\ Len(mails) = imp.mails0
             /\ folders = imp.folders0)

\* a second run found two transcripts it had copied in the first: nothing is
\* created, nothing assigned, and both are counted
C5_Witness ==
  /\ imp.pc = "finished"
  /\ nImports = 2
  /\ Cardinality(ExistedAtStart) = 2
  /\ imp.skippedExistsCount = 2
  /\ imp.copyLog = << >>
  /\ Len(hwLedger) = imp.ledger0
  /\ Len(hwLedger) > 0

(***************************************************************************)
(* Properties of saveHomeworkPrompt and of interrupted imports.            *)
(***************************************************************************)
\* prompt file i has its row in the homework ledger
HasLedgerRow(i) == \E j \in 1..Len(hwLedger) : hwLedger[j].promptFile = i

\* the calls of the run in which saveHomeworkPrompt failed to append the row
LedgerFailures == {c \in 1..Len(imp.calls) : imp.calls[c].result = "ledger"}

\* C11: when the ledger append fails after saveHomeworkPrompt created the
\* prompt file, the file is trashed (unless trashing fails too), the caller
\* sees the failure (it counts an assignment error) and no notification is
\* sent with the token; so every prompt file a finished call created, whose
\* clean-up did not fail, is live if and only if its ledger row was appended.
C11_PromptMatchesLedger ==
  /\ \A i \in 1..Len(prompts) :
       prompts[i].cleanup # "failed" => (~prompts[i].trashed <=> HasLedgerRow(i))
  /\ \A c \in LedgerFailures :
       /\ imp.calls[c].mail = "none"
       /\ ~HasLedgerRow(imp.calls[c].prompt)
       /\ \A k \in 1..Len(mails) : mails[k].token # imp.calls[c].prompt
  /\ imp.pc # "idle" =>
       /\ imp.assignmentErrors
            = Cardinality({c \in 1..Len(imp.calls) : imp.calls[c].result # "ok"})
       /\ Len(mails) - imp.mails0
            = Cardinality({c \in 1..Len(imp.calls) : imp.calls[c].mail = "sent"})

\* a run ended in which the ledger append failed for one student, whose
\* prompt file was trashed, and succeeded for the other
C11_Witness ==
  /\ imp.pc = "finished"
  /\ \E c \in LedgerFailures :
       /\ prompts[imp.calls[c].prompt].trashed
       /\ prompts[imp.calls[c].prompt].cleanup = "ok"
  /\ \E i \in 1..Len(prompts) : ~prompts[i].trashed /\ HasLedgerRow(i)

\* a ledger row covers the transcript: its prompt lists the transcript
Covered(t) ==
  \E j \in 1..Len(hwLedger) :
    \E i \in 1..Len(prompts[hwLedger[j].promptFile].files) :
      prompts[hwLedger[j].promptFile].files[i] = t

\* C12: a transcript that an interrupted run of importTranscriptsToDrive
\* copied into the student's folder without reaching assignHomework is covered
\* by a ledger row once a later run has ended normally.
C12_InterruptedImportRecovered ==
  imp.pc = "finished" => \A t \in unassigned : Covered(t)

(***************************************************************************)
(* Properties of the status poll.                                          *)
(***************************************************************************)
\* the passes of the one trigger that have gone over row r
PassOver(r, n) ==
  \/ \E p \in Pollers : m[p].pc # "idle" /\ m[p].no = n /\ m[p].i > r
  \/ lastPass.done /\ lastPass.no = n

\* the poll failed for a passing cause: the fetch threw, or the provider
\* answered with a status other than 200, 401, 404 and 429
TransientFailure(a) == a.resp.code \notin {200, 401, 404, 429}

\* C13: after a status poll that failed for a passing cause (the fetch threw,
\* or an HTTP status other than 200, 401, 404, 429) the row holds the status
\* it had or the status getJobStatus returned, and the next pass polls the
\* row again.
C13_TransientPollRetried ==
  \A r \in RowIds : \A i \in 1..Len(answers[r]) :
    TransientFailure(answers[r][i]) =>
      /\ i = Len(answers[r])
           => jobs[r].status \in {answers[r][i].row.status, answers[r][i].st}
      /\ PassOver(r, answers[r][i].no + 1)
           => (i < Len(answers[r]) /\ answers[r][i + 1].no = answers[r][i].no + 1)

\* the provider's answer is final: 401, 404, or 200 without job.status
PermanentFailure(a) ==
  \/ a.resp.code \in {401, 404}
  \/ a.resp.code = 200 /\ a.resp.status = ""

\* the status the claim names for such an answer
PermanentStatus(a) ==
  IF a.resp.code = 401 THEN "error_unauthorized"
  ELSE IF a.resp.code = 404 THEN "not_found"
  ELSE "error_parsing_response"

\* C14: when the provider answers a status poll with 401, with 404 or with a
\* 200 body that lacks job.status, the row holds error_unauthorized,
\* not_found or error_parsing_response from then on, and no later poll of the
\* row is made.
C14_PermanentErrorTerminal ==
  \A r \in RowIds : \A i \in 1..Len(answers[r]) :
    PermanentFailure(answers[r][i]) =>
      /\ i = Len(answers[r])
      /\ jobs[r].status = PermanentStatus(answers[r][i])
      /\ jobs[r].status \in terminalStatuses

\* a row was answered 404 in the first pass, and the second pass has gone
\* over it without polling it
C14_Witness ==
  \E r \in RowIds :
    /\ Len(answers[r]) = 1
    /\ answers[r][1].resp.code = 404
    /\ answers[r][1].no = 1
    /\ jobs[r].status = "not_found"
    /\ PassOver(r, 2)

\* C15: a poll that getJobStatus answers rate_limited (HTTP 429) leaves the
\* row as it was (file name, job id and status) until the row is polled
\* again, which the next pass does.
C15_RateLimitedUntouched ==
  \A r \in RowIds : \A i \in 1..Len(answers[r]) :
    (answers[r][i].resp.code = 429 \/ answers[r][i].st = "rate_limited") =>
      /\ answers[r][i].resp.code = 429 /\ answers[r][i].st = "rate_limited"
      /\ IF i = Len(answers[r]) THEN jobs[r] = answers[r][i].row
         ELSE answers[r][i + 1].row = answers[r][i].row
      /\ \A p \in Pollers :
           (m[p].pc # "idle" /\ m[p].no = answers[r][i].no) => r \notin m[p].wrote
      /\ PassOver(r, answers[r][i].no + 1)
           => (i < Len(answers[r]) /\ answers[r][i + 1].no = answers[r][i].no + 1)

\* a row was rate limited in the first pass and polled again in the second
C15_Witness ==
  \E r \in RowIds :
    /\ Len(answers[r]) = 2
    /\ answers[r][1].st = "rate_limited"
    /\ answers[r][1].no = 1
    /\ answers[r][2].no = 2
    /\ answers[r][2].row.status = "submitted"

\* C16: a row with a polled status (submitted, running, processing,
\* processing_transcript) and no job id is never polled; the first pass that
\* comes to it writes error_missing_jobid, and a pass that reads that status
\* leaves the row alone.
C16_MissingJobIdMarkedOnce ==
  \A r \in 1..Len(jobs) :
    /\ jobs[r].jobId = "" => answers[r] = << >>
    /\ \A p \in Pollers :
         m[p].pc # "idle" =>
           /\ (LacksJobId(m[p].data[r]) /\ m[p].i > r)
                => (jobs[r].status = "error_missing_jobid" /\ r \in m[p].wrote
                    /\ r \notin m[p].polled)
           /\ m[p].data[r].status = "error_missing_jobid"
                => (r \notin m[p].wrote /\ r \notin m[p].polled
                    /\ jobs[r] = m[p].data[r])

\* the first pass marked a row that had lost its job id, and the second pass
\* has gone over it
C16_Witness ==
  \E r \in 1..Len(jobs) :
    /\ m["mon1"].pc # "idle"
    /\ m["mon1"].no = 2
    /\ m["mon1"].i > r
    /\ m["mon1"].data[r].status = "error_missing_jobid"
    /\ jobs[r].jobId = ""

(***************************************************************************)
(* Properties of failed submissions and failed renames.                    *)
(***************************************************************************)
\* the rows of the sheet that carry the name of file f
RowsNamed(f) == {r \in 1..Len(jobs) : jobs[r].fileName = driveFiles[f].name}

\* part_000: the call threw, or returned no job id
FailedSend(e) == e.threw \/ e.jobId = ""

NoRowFor(f) ==
  \A r \in 1..Len(View("disc")) :
    /\ View("disc")[r].fileName # driveFiles[f].name
    /\ View("disc")[r].fileName
         # CanonicalName(extractStudentInfoFromFilename(driveFiles[f].name), f)

\* C18: when file.setName fails, the step adds one to errorCount, writes
\* nothing to the sheet, submits nothing and goes on with the files still to
\* come; to the end of the run the file has no row and no submission, and
\* every other recording of the folder has its row when the scan is over.
C18_RenameFailureSkipsFile ==
  /\ [](d.pc # "idle" =>
          /\ \A f \in d.failed : sent[f] = 0 /\ sendLog[f] = << >> /\ NoRowFor(f)
          /\ (d.pc = "loop" /\ d.todo = {}) =>
                \A g \in FileIds \ d.failed :
                   IsRecording(g) => RowsOf(View("disc"), g) # {})
  /\ [][(d.failed' # d.failed /\ d.failed' # {}) =>
          /\ d.errorCount' = d.errorCount + 1
          /\ d.fileCount' = d.fileCount
          /\ d.todo' = d.todo
          /\ d.pc' = "loop"
          /\ jobs' = jobs /\ pending' = pending /\ sent' = sent]_vars

\* the rename of one recording failed, and the scan went on to the end: the
\* other recording was renamed, recorded and submitted by the same run
C18_Witness ==
  /\ d.pc = "loop"
  /\ d.todo = {}
  /\ d.errorCount = 1
  /\ d.fileCount = 1
  /\ \E f \in d.failed : \E g \in FileIds \ d.failed :
       /\ IsRecording(f)
       /\ NoRowFor(f)
       /\ RowsOf(View("disc"), g) # {}
       /\ sent[g] = 1
       /\ Renamed(g)

(***************************************************************************)
(* Properties of sendFileInfoToCloudRun.                                   *)
(***************************************************************************)
\* the call of the file in hand has come back (the payload was built and the
\* fetch was made)
CallMade == d.pc \in {"final", "flush2"} /\ d.cur.resp # NoResp

\* HTTP 200 with a JSON body whose job_id is a string that is not blank
NamesJob(resp) ==
  /\ ~resp.net
  /\ resp.code = 200
  /\ resp.json
  /\ resp.job_id.type = "string"
  /\ \E i \in 1..Len(resp.job_id.val) : resp.job_id.val[i] \notin WhiteChars

\* C19: part_000, endpoint configured: sendFileInfoToCloudRun returns a job id
\* exactly when the response is HTTP 200 with a JSON body whose job_id is a
\* string that is not blank, and the id returned is that string without the
\* blanks around it; on a network error, a status other than 200, a body
\* that is no JSON, or a job_id that is missing, no string or blank, it
\* returns null; in none of these cases does it throw.
C19_JobIdOrNull ==
  (variant = "V8" /\ CallMade) =>
    /\ ~d.cur.cloudRunError
    /\ d.cur.jobId # "" <=> NamesJob(d.cur.resp)
    /\ NamesJob(d.cur.resp) =>
         /\ d.cur.jobId \notin WhiteChars
         /\ \A i \in 1..Len(d.cur.resp.job_id.val) :
              d.cur.resp.job_id.val[i] \in WhiteChars \cup {d.cur.jobId}
    /\ d.cur.finalStatus = IF NamesJob(d.cur.resp) THEN "submitted" ELSE "cloudrun_no_jobid"

\* Cloud Run answered 200 with the job id between blanks: the id is returned
\* without them
C19_Witness ==
  /\ variant = "V8"
  /\ CallMade
  /\ d.cur.resp.job_id.val = << " ", JobIdFor(d.cur.file), " " >>
  /\ d.cur.jobId = JobIdFor(d.cur.file)

\* C20: Code.js: sendFileInfoToCloudRun throws only for an HTTP 200 response
\* whose body is not the acknowledgement; on a network error and on a status
\* other than 200 it returns without throwing.
C20_OnlyBad200Throws ==
  (variant = "V9" /\ CallMade) =>
    (d.cur.cloudRunError =>
       (~d.cur.resp.net /\ d.cur.resp.code = 200
        /\ ~(d.cur.resp.json /\ d.cur.resp.message = AckMessage)))

(***************************************************************************)
(* Properties of the configuration checks.                                 *)
(***************************************************************************)
\* C21: when a script property the import stage needs is not set, the run
\* leaves no side effect: no transcript or prompt file created in a student
\* folder, no homework-ledger row written and no notification sent
C21_MissingConfigNoSideEffect ==
  (\E k \in DOMAIN config : ~config[k]) =>
     /\ folders = [f \in FolderIds |-> {}]
     /\ prompts = << >>
     /\ hwLedger = << >>
     /\ mails = << >>

(***************************************************************************)
(* Properties of the import scan.                                          *)
(***************************************************************************)
\* the transcripts of the listing the loop body gave up on by name alone
NotForImport(run) ==
  {i \in 1..Len(run.list) : Classify(run.list[i]) = "format"}

C23_MissingSourceTolerated ==
  \A p \in Pollers :
     /\ m[p].pc \in {"copy", "delete"} => m[p].head.code = 200
     /\ (m[p].pc = "final" /\ m[p].head.code = 404) =>
          /\ m[p].err = NoError
          /\ gcs = m[p].head.bucket
          /\ Cur(p).fileName \notin gcs.incoming

\* the relocation is invoked again for a recording an earlier pass had moved
\* to processed/, and returns
C23_Witness ==
  \E p \in Pollers :
     /\ m[p].pc = "final"
     /\ m[p].head.code = 404
     /\ moved[m[p].i] = 2
     /\ Cur(p).fileName \in gcs.processed
     /\ Cur(p).fileName \notin gcs.incoming

(***************************************************************************)
(* Properties of the parser and the renamer.                               *)
(***************************************************************************)
\* C24: the canonical name the renamer gave to a recording parses to the
\* (name, date) pair the raw name parsed to
C24_ParserRoundTrip ==
  \A f \in FileIds :
     Renamed(f) =>
        LET raw   == extractStudentInfoFromFilename(origFiles[f].name)
            canon == extractStudentInfoFromFilename(driveFiles[f].name)
        IN  /\ canon.ok
            /\ canon.name = raw.name
            /\ canon.date = raw.date

(***************************************************************************)
(* Properties of assignHomework.                                           *)
(***************************************************************************)
\* the row of Current_Students (the header is row 1) that holds the address
SheetRowOf(email) ==
  1 + CHOOSE r \in 1..Len(Roster) : Roster[r].email = email

NotificationsOf(call) ==
  {k \in (imp.mails0 + 1)..Len(mails) :
     mails[k].to = call.email /\ mails[k].token = call.prompt}

\* C26: every assignHomework call that appended a homework-ledger row has
\* sent exactly one notification, to the student's address and with the token
\* of that row in its link; a call that appended no row has sent none
C26_RowNotifiedOnce ==
  \A i \in 1..Len(imp.calls) :
     IF imp.calls[i].result = "ok"
     THEN /\ \E r \in (imp.ledger0 + 1)..Len(hwLedger) :
               /\ hwLedger[r].email = imp.calls[i].email
               /\ hwLedger[r].token = imp.calls[i].prompt
          /\ Cardinality(NotificationsOf(imp.calls[i])) = 1
     ELSE \A k \in (imp.mails0 + 1)..Len(mails) : mails[k].to # imp.calls[i].email

(***************************************************************************)
(* Properties of the roster match.                                         *)
(***************************************************************************)
\* a name without regard to letter case, underscores and white space
Normalized(name) == Trim(CollapseWhite(MapChars(ToLower(name), {"_"}, " "), " "))

\* the roster rows whose name is, normalized, the name the parser of the
\* recordings reads in a transcript name
RosterRowsFor(t) ==
  LET info == extractStudentInfoFromFilename(t)
  IN  {r \in 1..Len(Roster) : info.ok /\ Normalized(info.name) = Normalized(Roster[r].name)}

\* C27: a transcript of the listing whose name, as the parser of the
\* recordings reads it, is a roster name up to letter case and white space
\* or underscores is matched to the first such roster row, and the name the
\* import derives from a matched transcript is that name in lower case; so
\* the canonical transcript name of every roster student is matched to the
\* student
C27_RosterMatchAgreesWithParser ==
  \A i \in 1..Len(imp.list) :
     LET t == imp.list[i]
     IN  /\ (RosterRowsFor(t) # {} /\ Classify(t) # "asterisk") =>
               /\ Classify(t) = "match"
               /\ OwnerOf(t) = Roster[Min(RosterRowsFor(t))]
         /\ Classify(t) = "match" =>
               StudentNameProcessed(TranscriptMatch(t).name)
                  = ToLower(extractStudentInfoFromFilename(t).name)

(***************************************************************************)
(* Properties of the status column.                                        *)
(***************************************************************************)
\* the statuses of the tracking sheet: the placeholder of discovery, the
\* polled statuses and the terminal set of the poller
StatusVocabulary ==
  {"processing_cloudrun"} \cup submittedStatuses \cup {"processing_transcript"}
    \cup terminalStatuses

\* C28: after any discovery runs and poll passes the status of every row of
\* the tracking sheet is in the fixed vocabulary
C28_StatusVocabularyClosed ==
  \A r \in 1..Len(jobs) : jobs[r].status \in StatusVocabulary

(***************************************************************************)
(* Properties of the completion handling.                                  *)
(***************************************************************************)
\* the final status the step that threw stands for
StatusOfStep(step) ==
  CASE step = "none"   -> "done"
    [] step = "fetch"  -> "transcript_fetch_error"
    [] step = "upload" -> "gcs_error"
    [] step = "move"   -> "gcs_move_error"

\* C29: the final status written after the completion handling is
\* transcript_fetch_error when the transcript fetch threw, gcs_error when the
\* upload threw, gcs_move_error when the relocation threw, and done when
\* nothing threw
C29_FinalStatusNamesFailedStep ==
  [][\A p \in Pollers :
       (m[p].pc = "final" /\ m'[p].pc = "row" /\ m'[p].i = m[p].i + 1)
          => jobs'[m[p].i].status = StatusOfStep(m[p].failedAt)]_vars

(***************************************************************************)
(* Properties of the writes to the tracking ledger.                        *)
(***************************************************************************)
\* C30: when processNewRecordings goes on to the next file or to an external
\* call (file.setName, sendFileInfoToCloudRun), every write it made to the
\* ledger, the header included, has been flushed
C30_LedgerWritesFlushed ==
  (d.pc \in {"rename", "send"} \/ (d.pc = "loop" /\ d.todo # {}))
     => (pending["disc"] = << >> /\ hdr # "rewritten")

(***************************************************************************)
(* Properties of the life of a tracking row.                               *)
(***************************************************************************)
\* the rows a step changes, the submission step of that row being behind it
ChangedAfterSubmission ==
  \A i \in 1..Len(jobs) :
     (i <= Len(jobs') /\ jobs'[i] # jobs[i])
        => /\ d.cur.addedRowIndex = i + 1
           /\ \E k \in 1..Len(dlog) : dlog[k] = "send"
           /\ jobs'[i].fileName = jobs[i].fileName

C32_FileNameUnique ==
  \A i, j \in 1..Len(jobs) : jobs[i].fileName = jobs[j].fileName => i = j

\* a run was interrupted, the next one ended normally, and the sheet holds
\* the rows of two recordings
C32_Witness ==
  /\ nRuns = 2
  /\ nFaults = 1
  /\ lastRun.done
  /\ d.pc = "idle"
  /\ Len(jobs) = 2

(***************************************************************************)
(* Properties of the relocation of a recording.                            *)
(***************************************************************************)
\* C33: a recording leaves incoming/ only when its copy is in processed/,
\* and nothing is removed from processed/: at every step of moveFileInGCS,
\* failed or interrupted, the recording is under one of the two
C33_RecordingNeverLost ==
  [][/\ \A n \in gcs.incoming \ gcs'.incoming : n \in gcs.processed
     /\ gcs.processed \subseteq gcs'.processed]_vars

\* a recording has been moved, and the copy of another failed
C33_Witness ==
  /\ \E n \in gcs.processed : n \notin gcs.incoming
  /\ \E p \in Pollers : m[p].pc = "final" /\ m[p].failedAt = "move"
                        /\ m[p].head.code = 200
                        /\ Cur(p).fileName \in gcs.incoming \ gcs.processed

C35_EmptyTranscriptIsDone ==
  [][\A p \in Pollers :
       (m[p].pc = "final" /\ m'[p].pc = "row" /\ m'[p].i = m[p].i + 1
          /\ m[p].body = "" /\ m[p].failedAt \notin {"upload", "move"})
          => /\ jobs'[m[p].i].status = "done"
             /\ uploads[m[p].i] >= 1
             /\ transcriptFileName(m[p].title, Cur(p).fileName) \in gcs.transcripts]_vars

\* a row whose transcript was empty has ended in done
C35_Witness ==
  \E p \in Pollers :
     /\ m[p].pc = "final"
     /\ m[p].body = ""
     /\ m[p].failedAt = "none"
     /\ m[p].head.code = 200
     /\ Cur(p).fileName \in gcs.processed \ gcs.incoming

(***************************************************************************)
(* Properties of the transcripts importTranscriptsToDrive leaves out.      *)
(***************************************************************************)
\* the name part of a transcript's name holds an asterisk
HasAsterisk(name) ==
  /\ TranscriptMatch(name).ok
  /\ \E i \in 1..Len(TranscriptMatch(name).name) : TranscriptMatch(name).name[i] = "*"

\* C37: a transcript with an asterisk in its name part is not copied, is in
\* no batch and no assignHomework call, and is no error; it is counted in
\* skippedAsteriskCount and in no other counter
C37_AsteriskSkipped ==
  LET seen == {imp.list[i] : i \in 1..Min({imp.k - 1, Len(imp.list)})}
      ast  == {n \in seen : HasAsterisk(n)}
  IN  imp.pc \in {"run", "finished"} =>
        /\ \A n \in ast :
             /\ \A i \in 1..Len(imp.copyLog) : imp.copyLog[i].name # n
             /\ \A f \in FolderIds : n \notin folders[f]
             /\ \A b \in 1..Len(imp.batches) :
                  \A j \in 1..Len(imp.batches[b].files) : imp.batches[b].files[j] # n
             /\ \A c \in 1..Len(imp.calls) :
                  \A j \in 1..Len(imp.calls[c].files) : imp.calls[c].files[j] # n
             /\ n \notin imp.failed
        /\ imp.skippedAsteriskCount = Cardinality(ast)
        /\ seen = ast =>
             /\ imp.errorCount = 0
             /\ imp.skippedNoMatchCount = 0
             /\ imp.skippedExistsCount = 0
             /\ imp.importCount = 0

\* a run has ended that skipped a transcript with an asterisk and copied
\* another
C37_Witness ==
  /\ imp.pc = "finished"
  /\ \E i \in 1..Len(imp.list) : HasAsterisk(imp.list[i])
  /\ imp.skippedAsteriskCount = 1
  /\ imp.importCount >= 1
  /\ Len(imp.calls) >= 1

(***************************************************************************)
(* Properties of the rows of the homework ledger.                          *)
(***************************************************************************)
\* C38: every row of the homework ledger has ten cells in the order
\* Student_ID, Student_Name, Student_Email, HW_ID, PromptFileID, Token,
\* AssignedAt, CompletedAt, Token_Status, Turns_Used; CompletedAt is empty,
\* Token_Status is Active, Turns_Used is 0, and PromptFileID is the prompt
\* file that the call which appended the row created for that student
C38_LedgerRowShape ==
  \A i \in 1..Len(hwLedger) :
     LET c == hwLedger[i].cells IN
       /\ Len(c) = 10
       /\ \E r \in 1..Len(Roster) :
            /\ c[1] = Roster[r].studentId
            /\ c[2] = Roster[r].name
            /\ c[3] = Roster[r].email
            /\ c[4] = << "L", DigitSeq[r + 1], "-" >> \o Today
            /\ c[5] \in 1..Len(prompts)
            /\ prompts[c[5]].folderId = Roster[r].folderId
       /\ \A j \in 1..Len(hwLedger) : hwLedger[j].cells[5] = c[5] => j = i
       /\ \A j \in 1..Len(hwLedger) : hwLedger[j].cells[6] = c[6] => j = i
       /\ c[7] # ""
       /\ c[8] = ""
       /\ c[9] = "Active"
       /\ c[10] = 0

\* two calls of saveHomeworkPrompt have appended a row each
C38_Witness ==
  /\ Len(hwLedger) >= 2
  /\ \E i, j \in 1..Len(hwLedger) : hwLedger[i].cells[3] # hwLedger[j].cells[3]

(***************************************************************************)
(* Properties of processCompletedTranscripts (Code.js).                    *)
(***************************************************************************)
\* the transcripts of the assignments the ledger held when the run started
AssignedBefore ==
  UNION {{prompts[hwLedger[i].promptFile].files[j] :
            j \in 1..Len(prompts[hwLedger[i].promptFile].files)} :
           i \in 1..Min({imp.ledger0, Len(hwLedger)})}

\* C39: in Code.js a transcript of an assignment made by an earlier run is in
\* no batch of a later run, and a run over folders that hold no other
\* transcript appends no row to the homework ledger
C39_NoReassignment ==
  (variant = "V9" /\ imp.pc \in {"run", "finished"}) =>
     /\ \A b \in 1..Len(imp.batches) :
          \A j \in 1..Len(imp.batches[b].files) :
             imp.batches[b].files[j] \notin AssignedBefore
     /\ (UNION {folders[f] : f \in FolderIds} \subseteq AssignedBefore)
           => Len(hwLedger) = imp.ledger0

(***************************************************************************)
(* Properties of the name of the prompt file.                              *)
(***************************************************************************)
\* the name ends in _<YYYY-MM-DD>_<10 characters>.txt
EndsInDateAndFragment(name) ==
  /\ Len(name) >= 26
  /\ EndsWithNoCase(name, ExtTxt)
  /\ IsFragAt(name, Len(name) - 13)
  /\ name[Len(name) - 14] = "_"
  /\ IsDateAt(name, Len(name) - 24)
  /\ name[Len(name) - 25] = "_"

\* prompt_<date>_<fragment>.txt, with the date and the fragment of that name
DateAndFragmentName(name) ==
  << "p", "r", "o", "m", "p", "t", "_" >> \o SubSeq(name, Len(name) - 24, Len(name))

\* the roster row of the student with that address
RosterRowOf(email) == CHOOSE r \in 1..Len(Roster) : Roster[r].email = email

\* C36 as stated: the prompt file of every assignHomework call is named
\* prompt_<date>_<fragment>.txt after the first transcript of the batch when
\* that name ends in _<YYYY-MM-DD>_<10 chars>.txt, and
\* HW_L<row>-<YYYYMMDD>_prompt.txt otherwise
C36_PromptNamedAfterFirst ==
  \A i \in 1..Len(imp.calls) :
     imp.calls[i].prompt # 0 =>
       prompts[imp.calls[i].prompt].name =
          IF EndsInDateAndFragment(imp.calls[i].files[1])
          THEN DateAndFragmentName(imp.calls[i].files[1])
          ELSE << "H", "W", "_", "L", DigitSeq[SheetRowOf(imp.calls[i].email)], "-" >>
                 \o Today \o << "_", "p", "r", "o", "m", "p", "t" >> \o ExtTxt

\* C36, amended: the prompt file is named after the first transcript of the
\* batch only. In part_000 the name is as C36 states it; in Code.js it is
\* prompt_<student name, blanks as _>_<date>_<fragment>.txt when the first
\* transcript ends in _<YYYY-MM-DD>_<10 chars>.txt and prompt_<first
\* transcript> otherwise
C36_PromptNamedByVariant ==
  \A i \in 1..Len(imp.calls) :
     imp.calls[i].prompt # 0 =>
       LET first == imp.calls[i].files[1]
           name  == prompts[imp.calls[i].prompt].name
           pre   == << "p", "r", "o", "m", "p", "t", "_" >>
       IN  IF variant = "V8"
           THEN name = IF EndsInDateAndFragment(first)
                       THEN DateAndFragmentName(first)
                       ELSE << "H", "W", "_", "L",
                               DigitSeq[SheetRowOf(imp.calls[i].email)], "-" >>
                              \o Today \o << "_", "p", "r", "o", "m", "p", "t" >> \o ExtTxt
           ELSE name = IF EndsInDateAndFragment(first)
                       THEN pre \o CollapseWhite(Roster[RosterRowOf(imp.calls[i].email)].name, "_")
                              \o SubSeq(first, Len(first) - 25, Len(first))
                       ELSE pre \o first

\* both naming rules were used in one run, for batches of two transcripts
\* the first of which ends in a date and a fragment in one batch and in a
\* date alone in the other
C36_Witness ==
  \E i, j \in 1..Len(imp.calls) :
     /\ imp.calls[i].prompt # 0 /\ imp.calls[j].prompt # 0
     /\ Len(imp.calls[i].files) >= 2
     /\ EndsInDateAndFragment(imp.calls[i].files[1])
     /\ ~EndsInDateAndFragment(imp.calls[j].files[1])

(***************************************************************************)
(* Termination of the pipeline.                                            *)
(***************************************************************************)
\* the bounds of the model cut the row short: a later pass of
\* monitorTranscriptionJobs would poll it, or discovery has runs left
CutShort(row) == (~SkipsRow(row) /\ ~LacksJobId(row)) \/ nRuns < MaxRuns

\* C40: with the triggers firing again and again, every row stored in the
\* tracking sheet comes to a status of terminalStatuses, runs being
\* interrupted at any step (within the MaxRuns runs and passes of the model:
\* or it is left as a row the next pass would poll)
C40_EveryRowTerminates ==
  \A r \in RowIds :
    [](r <= Len(jobs)
         => <>(r <= Len(jobs)
                 /\ (jobs[r].status \in terminalStatuses \/ CutShort(jobs[r]))))

=============================================================================
